---- MODULE Spec2Model ----
(***************************************************************************)
(* Model of the metadata engine of stable-snip: format dispatch            *)
(* (getMetadata), the generator-text parser and encoder                    *)
(* (automaticMetadataProcessor) and the workflow-graph descriptor          *)
(* (comfyMetadataProcessor).                                               *)
(*                                                                         *)
(* JavaScript values are tagged records [t |-> tag, v |-> payload]:        *)
(*   "undef"  undefined            "str"  a string (a TLA+ string)         *)
(*   "num"    a finite number v * 10^(-e), normalised                      *)
(*   "nan"    NaN                  "obj"  an object: ordered <<key, value>>*)
(*   "arr"    an array             entries in insertion order              *)
(* Strings are TLA+ strings, read character by character with SubSeq.      *)
(* Object keys of the model are never canonical array indices, so the      *)
(* insertion order of the entries is the enumeration order of the object.  *)
(***************************************************************************)
EXTENDS Integers, Sequences, FiniteSets, TLC

(***************************************************************************)
(* JavaScript values                                                       *)
(***************************************************************************)
Undefined == [t |-> "undef", v |-> ""]
NaN == [t |-> "nan", v |-> ""]
Str(s) == [t |-> "str", v |-> s]
Num(n) == [t |-> "num", v |-> n, e |-> 0]
Dec(n, k) == [t |-> "num", v |-> n, e |-> k]
Obj(entries) == [t |-> "obj", v |-> entries]
Arr(items) == [t |-> "arr", v |-> items]
EmptyRecord == Obj(<<>>)

\* ToBoolean of a value
Truthy(x) ==
  CASE x.t = "undef" -> FALSE
    [] x.t = "nan" -> FALSE
    [] x.t = "str" -> x.v # ""
    [] x.t = "num" -> x.v # 0
    [] x.t = "bool" -> x.v
    [] x.t = "null" -> FALSE
    [] OTHER -> TRUE


(***************************************************************************)
(* Objects as ordered entry lists                                          *)
(***************************************************************************)
KeyIndex(entries, k) ==
  IF \E i \in 1..Len(entries) : entries[i][1] = k
  THEN CHOOSE i \in 1..Len(entries) : entries[i][1] = k
  ELSE 0

ObjHas(o, k) == KeyIndex(o.v, k) # 0

ObjGet(o, k) == IF ObjHas(o, k) THEN o.v[KeyIndex(o.v, k)][2] ELSE Undefined

ObjSet(o, k, x) ==
  IF ObjHas(o, k)
  THEN Obj([o.v EXCEPT ![KeyIndex(o.v, k)] = <<k, x>>])
  ELSE Obj(Append(o.v, <<k, x>>))

ObjDelete(o, k) ==
  Obj(SelectSeq(o.v, LAMBDA en : en[1] # k))


(***************************************************************************)
(* String primitives (String.prototype)                                    *)
(***************************************************************************)
Ch(s, i) == SubSeq(s, i, i)

Whitespace == {" ", "\t", "\n", "\r"}
Digits == {"0", "1", "2", "3", "4", "5", "6", "7", "8", "9"}
Lower == {"a", "b", "c", "d", "e", "f", "g", "h", "i", "j", "k", "l", "m",
          "n", "o", "p", "q", "r", "s", "t", "u", "v", "w", "x", "y", "z"}
Upper == {"A", "B", "C", "D", "E", "F", "G", "H", "I", "J", "K", "L", "M",
          "N", "O", "P", "Q", "R", "S", "T", "U", "V", "W", "X", "Y", "Z"}
\* the regular-expression class \w
WordChars == Lower \cup Upper \cup Digits \cup {"_"}

Min(S) == CHOOSE m \in S : \A n \in S : m <= n
Max(S) == CHOOSE m \in S : \A n \in S : m >= n

\* s.startsWith(p, i - 1), positions counted from 1
StartsWithAt(s, p, i) ==
  /\ i >= 1
  /\ i + Len(p) - 1 <= Len(s)
  /\ SubSeq(s, i, i + Len(p) - 1) = p

StartsWith(s, p) == StartsWithAt(s, p, 1)

\* s.indexOf(p, i - 1) + 1: the first position >= i where p occurs, 0 if none
IndexOfFrom(s, p, i) ==
  LET hits == {j \in i..(Len(s) - Len(p) + 1) : StartsWithAt(s, p, j)}
  IN IF hits = {} THEN 0 ELSE Min(hits)

IndexOf(s, p) == IndexOfFrom(s, p, 1)

Includes(s, p) == IndexOf(s, p) # 0

\* s.trim()
Trim(s) ==
  LET keep == {i \in 1..Len(s) : Ch(s, i) \notin Whitespace}
  IN IF keep = {} THEN "" ELSE SubSeq(s, Min(keep), Max(keep))

\* s.split(sep) for a non-empty separator
RECURSIVE Split(_, _)
Split(s, sep) ==
  LET i == IndexOf(s, sep)
  IN IF i = 0 THEN <<s>>
     ELSE <<SubSeq(s, 1, i - 1)>> \o Split(SubSeq(s, i + Len(sep), Len(s)), sep)

\* parts.join(sep)
RECURSIVE Join(_, _)
Join(parts, sep) ==
  IF Len(parts) = 0 THEN ""
  ELSE IF Len(parts) = 1 THEN parts[1]
  ELSE parts[1] \o sep \o Join(Tail(parts), sep)

\* the position after the run of whitespace that starts at i (the match of \s*)
RECURSIVE SkipSpaces(_, _)
SkipSpaces(s, i) ==
  IF i <= Len(s) /\ Ch(s, i) \in Whitespace THEN SkipSpaces(s, i + 1) ELSE i

\* the end of the longest run of characters of class cls starting at i
\* (i - 1 when the run is empty)
RECURSIVE RunEnd(_, _, _)
RunEnd(s, i, cls) ==
  IF i <= Len(s) /\ Ch(s, i) \in cls THEN RunEnd(s, i + 1, cls) ELSE i - 1

(***************************************************************************)
(* Generator-text helpers                                                  *)
(***************************************************************************)
badExtensionKeys == <<"Resources: ", "Hashed prompt: ", "Hashed Negative prompt: ">>
templateKeys == <<"Template: ", "Negative Template: ">>

\* Mapping from SD parameters to the internal keys
automaticSDKeyMap ==
  <<<<"Seed", "seed">>, <<"CFG scale", "cfgScale">>, <<"Sampler", "sampler">>,
    <<"Steps", "steps">>, <<"Clip skip", "clipSkip">>>>

\* automaticSDKeyMap.get(k) ?? k
SDKeyMapGet(k) ==
  IF \E i \in 1..Len(automaticSDKeyMap) : automaticSDKeyMap[i][1] = k
  THEN automaticSDKeyMap[CHOOSE i \in 1..Len(automaticSDKeyMap) : automaticSDKeyMap[i][1] = k][2]
  ELSE k

getSDKey(key) == SDKeyMapGet(Trim(key))

\* the reversed map, for encoding back to SD format
automaticSDEncodeMap ==
  [i \in 1..Len(automaticSDKeyMap) |-> <<automaticSDKeyMap[i][2], automaticSDKeyMap[i][1]>>]

\* automaticSDEncodeMap.get(k) ?? k
SDEncodeMapGet(k) ==
  IF \E i \in 1..Len(automaticSDEncodeMap) : automaticSDEncodeMap[i][1] = k
  THEN automaticSDEncodeMap[CHOOSE i \in 1..Len(automaticSDEncodeMap) : automaticSDEncodeMap[i][1] = k][2]
  ELSE k

\* Keys to exclude from generic parameters
excludedKeys ==
  {"hashes", "civitaiResources", "scheduler", "vaes", "additionalResources",
   "comfy", "upscalers", "models", "controlNets", "denoise", "other", "external"}

\* a test that takes no text for a partial date
isPartialDateNever(date) == FALSE

isPartialDate(date) == Len(date) = 14 /\ Ch(date, 12) = "T"

\* Parse a line of generation parameters.  PDStep is the body of the for
\* loop for the character at position i, PDLoop runs it for the positions
\* lo..hi in order (split in halves, which keeps the evaluation shallow).
RECURSIVE parseDetailsLine(_), PDStep(_, _, _), PDLoop(_, _, _, _)
\* the loop body without the quote test on the colon and the comma
PDStepNoQuotes(line, i, st) ==
  LET char == Ch(line, i)
  IN IF char = "\""
     THEN IF st.insideQuotes
          THEN [st EXCEPT
                  !.result = ObjSet(st.result, st.currentKey,
                                    parseDetailsLine(Str(Trim(st.currentValue)))),
                  !.currentKey = "",
                  !.insideQuotes = FALSE]
          ELSE [st EXCEPT !.insideQuotes = TRUE]
     ELSE IF char = ":" /\ ~st.insideDate
     THEN IF isPartialDate(st.currentValue)
          THEN [st EXCEPT !.insideDate = TRUE]
          ELSE [st EXCEPT !.currentKey = getSDKey(Trim(st.currentValue)),
                          !.currentValue = ""]
     ELSE IF char = ","
     THEN [st EXCEPT
             !.insideDate = FALSE,
             !.result = IF st.currentKey # ""
                        THEN ObjSet(st.result, st.currentKey, Str(Trim(st.currentValue)))
                        ELSE st.result,
             !.currentKey = "",
             !.currentValue = ""]
     ELSE [st EXCEPT !.currentValue = st.currentValue \o char]

\* the loop body storing the quoted text as it is, without the nested parse
PDStepFlat(line, i, st) ==
  LET char == Ch(line, i)
  IN IF char = "\""
     THEN IF st.insideQuotes
          THEN [st EXCEPT
                  !.result = ObjSet(st.result, st.currentKey, Str(Trim(st.currentValue))),
                  !.currentKey = "",
                  !.insideQuotes = FALSE]
          ELSE [st EXCEPT !.insideQuotes = TRUE]
     ELSE IF char = ":" /\ ~st.insideQuotes /\ ~st.insideDate
     THEN IF isPartialDate(st.currentValue)
          THEN [st EXCEPT !.insideDate = TRUE]
          ELSE [st EXCEPT !.currentKey = getSDKey(Trim(st.currentValue)),
                          !.currentValue = ""]
     ELSE IF char = "," /\ ~st.insideQuotes
     THEN [st EXCEPT
             !.insideDate = FALSE,
             !.result = IF st.currentKey # ""
                        THEN ObjSet(st.result, st.currentKey, Str(Trim(st.currentValue)))
                        ELSE st.result,
             !.currentKey = "",
             !.currentValue = ""]
     ELSE [st EXCEPT !.currentValue = st.currentValue \o char]

PDStep(line, i, st) ==
  LET char == Ch(line, i)
  IN IF char = "\""
     THEN IF st.insideQuotes
          THEN [st EXCEPT
                  !.result = ObjSet(st.result, st.currentKey,
                                    parseDetailsLine(Str(Trim(st.currentValue)))),
                  !.currentKey = "",
                  !.insideQuotes = FALSE]
          ELSE [st EXCEPT !.insideQuotes = TRUE]
     ELSE IF char = ":" /\ ~st.insideQuotes /\ ~st.insideDate
     THEN IF isPartialDate(st.currentValue)
          THEN [st EXCEPT !.insideDate = TRUE]
          ELSE [st EXCEPT !.currentKey = getSDKey(Trim(st.currentValue)),
                          !.currentValue = ""]
     ELSE IF char = "," /\ ~st.insideQuotes
     THEN [st EXCEPT
             !.insideDate = FALSE,
             !.result = IF st.currentKey # ""
                        THEN ObjSet(st.result, st.currentKey, Str(Trim(st.currentValue)))
                        ELSE st.result,
             !.currentKey = "",
             !.currentValue = ""]
     ELSE [st EXCEPT !.currentValue = st.currentValue \o char]

PDLoop(line, lo, hi, st) ==
  IF lo > hi THEN st
  ELSE IF lo = hi THEN PDStep(line, lo, st)
  ELSE LET mid == (lo + hi) \div 2
       IN CHOOSE r \in {PDLoop(line, mid + 1, hi, left) :
                          left \in {PDLoop(line, lo, mid, st)}} : TRUE

\* lines 134-139: the locals before the loop
PDInit ==
  [result |-> EmptyRecord, currentKey |-> "", currentValue |-> "",
   insideQuotes |-> FALSE, insideDate |-> FALSE]

\* line 165: the store after the loop
PDFinish(st) ==
  IF st.currentKey # ""
  THEN ObjSet(st.result, st.currentKey, Str(Trim(st.currentValue)))
  ELSE st.result

parseDetailsLine(line) ==
  IF ~Truthy(line) THEN EmptyRecord
  ELSE PDFinish(PDLoop(line.v, 1, Len(line.v), PDInit))

(***************************************************************************)
(* Numbers: parseFloat and the number-to-string conversion                 *)
(***************************************************************************)
DigitVal(c) ==
  CASE c = "0" -> 0 [] c = "1" -> 1 [] c = "2" -> 2 [] c = "3" -> 3 [] c = "4" -> 4
    [] c = "5" -> 5 [] c = "6" -> 6 [] c = "7" -> 7 [] c = "8" -> 8 [] c = "9" -> 9

DigitChar(d) == Ch("0123456789", d + 1)

\* the value of a run of decimal digits
RECURSIVE DigitsVal(_)
DigitsVal(ds) ==
  IF ds = "" THEN 0
  ELSE DigitsVal(SubSeq(ds, 1, Len(ds) - 1)) * 10 + DigitVal(Ch(ds, Len(ds)))

\* n * 10^(-k) without trailing zeros in the fraction
RECURSIVE Normalise(_, _)
Normalise(n, k) ==
  IF k > 0 /\ n % 10 = 0 THEN Normalise(n \div 10, k - 1) ELSE Dec(n, k)

\* parseFloat(x): the longest prefix of the trimmed text that reads
\* [-]digits[.digits] or [-].digits; NaN when there is none.  Exponents and
\* Infinity are not produced by the inputs of the model.
ParseFloatSigned(neg, mag) == IF neg THEN Dec(0 - mag.v, mag.e) ELSE mag

\* the value of the digits read: NaN when there is none
ParseFloatDigits(neg, intDigits, fracDigits) ==
  IF intDigits = "" /\ fracDigits = "" THEN NaN
  ELSE ParseFloatSigned(neg,
         Normalise(DigitsVal(intDigits \o fracDigits), Len(fracDigits)))

\* the integer digits are s[b..ie]; a "." after them starts the fraction
ParseFloatFraction(s, neg, b, ie) ==
  IF ie + 1 <= Len(s) /\ Ch(s, ie + 1) = "."
  THEN ParseFloatDigits(neg, SubSeq(s, b, ie),
         SubSeq(s, ie + 2, RunEnd(s, ie + 2, Digits)))
  ELSE ParseFloatDigits(neg, SubSeq(s, b, ie), "")

ParseFloatFrom(s, neg, b) == ParseFloatFraction(s, neg, b, RunEnd(s, b, Digits))

ParseFloatText(s) ==
  ParseFloatFrom(s, StartsWith(s, "-"),
    IF StartsWith(s, "-") \/ StartsWith(s, "+") THEN 2 ELSE 1)

parseFloat(x) ==
  IF x.t = "num" \/ x.t = "nan" THEN x
  ELSE IF x.t # "str" THEN NaN
  ELSE ParseFloatText(Trim(x.v))

\* String(n) for a natural number
RECURSIVE NatToString(_)
NatToString(n) ==
  IF n < 10 THEN DigitChar(n) ELSE NatToString(n \div 10) \o DigitChar(n % 10)

\* the k digits of the fraction n (left-padded with zeros)
RECURSIVE FracToString(_, _)
FracToString(n, k) ==
  IF k = 0 THEN "" ELSE FracToString(n \div 10, k - 1) \o DigitChar(n % 10)

Pow10(k) == CASE k = 0 -> 1 [] k = 1 -> 10 [] k = 2 -> 100 [] k = 3 -> 1000 [] OTHER -> 10000

\* String(x) for a number
NumToString(x) ==
  LET a == IF x.v < 0 THEN 0 - x.v ELSE x.v
      sign == IF x.v < 0 THEN "-" ELSE ""
  IN IF x.e = 0 THEN sign \o NatToString(a)
     ELSE sign \o NatToString(a \div Pow10(x.e)) \o "." \o FracToString(a % Pow10(x.e), x.e)

(***************************************************************************)
(* JSON.parse: objects, arrays, strings without escapes, decimal numbers,  *)
(* true, false and null; every other text is a SyntaxError                 *)
(***************************************************************************)
JFail == [ok |-> FALSE, val |-> Undefined, next |-> 0]
JOk(x, n) == [ok |-> TRUE, val |-> x, next |-> n]

RECURSIVE JValue(_, _), JMembers(_, _, _), JElements(_, _, _)

\* a string literal opened at i and closed at q (0: never closed)
JString(s, i, q) ==
  IF q = 0 \/ Includes(SubSeq(s, i + 1, q - 1), "\\") THEN JFail
  ELSE JOk(Str(SubSeq(s, i + 1, q - 1)), q + 1)

\* a number literal s[i..fe] with a fraction after the integer digits s[..ie]
JNumberEnd(s, i, ie, fe) ==
  IF fe < ie + 2 THEN JFail
  ELSE JOk(parseFloat(Str(SubSeq(s, i, fe))), fe + 1)

\* a number literal from i on, its integer digits are s[b..ie]
JNumberInt(s, i, b, ie) ==
  IF ie < b THEN JFail
  ELSE IF ie > b /\ Ch(s, b) = "0" THEN JFail
  ELSE IF ie + 1 <= Len(s) /\ Ch(s, ie + 1) = "."
  THEN JNumberEnd(s, i, ie, RunEnd(s, ie + 2, Digits))
  ELSE JOk(parseFloat(Str(SubSeq(s, i, ie))), ie + 1)

JNumber(s, i, b) == JNumberInt(s, i, b, RunEnd(s, b, Digits))

\* after "{" and after "[", j is the first position that is not a space
JObject(s, j) ==
  IF j <= Len(s) /\ Ch(s, j) = "}" THEN JOk(EmptyRecord, j + 1)
  ELSE JMembers(s, j, EmptyRecord)

JArray(s, j) ==
  IF j <= Len(s) /\ Ch(s, j) = "]" THEN JOk(Arr(<<>>), j + 1)
  ELSE JElements(s, j, <<>>)

\* the value that starts at position i
JValueAt(s, i) ==
  IF i > Len(s) THEN JFail
  ELSE IF Ch(s, i) = "{" THEN JObject(s, SkipSpaces(s, i + 1))
  ELSE IF Ch(s, i) = "[" THEN JArray(s, SkipSpaces(s, i + 1))
  ELSE IF Ch(s, i) = "\"" THEN JString(s, i, IndexOfFrom(s, "\"", i + 1))
  ELSE IF StartsWithAt(s, "true", i) THEN JOk([t |-> "bool", v |-> TRUE], i + 4)
  ELSE IF StartsWithAt(s, "false", i) THEN JOk([t |-> "bool", v |-> FALSE], i + 5)
  ELSE IF StartsWithAt(s, "null", i) THEN JOk([t |-> "null", v |-> ""], i + 4)
  ELSE JNumber(s, i, IF Ch(s, i) = "-" THEN i + 1 ELSE i)

JValue(s, i0) == JValueAt(s, SkipSpaces(s, i0))

\* after a member: "}" closes the object o, "," leads to the next member
JMemberNext(s, o, d) ==
  IF d > Len(s) THEN JFail
  ELSE IF Ch(s, d) = "}" THEN JOk(o, d + 1)
  ELSE IF Ch(s, d) = "," THEN JMembers(s, SkipSpaces(s, d + 1), o)
  ELSE JFail

JMemberValue(s, o, k, x) ==
  IF ~x.ok THEN JFail
  ELSE JMemberNext(s, ObjSet(o, k.val.v, x.val), SkipSpaces(s, x.next))

JMemberColon(s, o, k, c) ==
  IF c <= Len(s) /\ Ch(s, c) = ":" THEN JMemberValue(s, o, k, JValue(s, c + 1))
  ELSE JFail

JMemberKey(s, o, k) ==
  IF ~k.ok THEN JFail ELSE JMemberColon(s, o, k, SkipSpaces(s, k.next))

\* the members of an object from position i on, o holds the members read so far
JMembers(s, i, o) ==
  IF i > Len(s) \/ Ch(s, i) # "\"" THEN JFail
  ELSE JMemberKey(s, o, JValue(s, i))

\* after an element: "]" closes the array a, "," leads to the next element
JElementNext(s, a, d) ==
  IF d > Len(s) THEN JFail
  ELSE IF Ch(s, d) = "]" THEN JOk(Arr(a), d + 1)
  ELSE IF Ch(s, d) = "," THEN JElements(s, d + 1, a)
  ELSE JFail

JElementValue(s, a, x) ==
  IF ~x.ok THEN JFail
  ELSE JElementNext(s, Append(a, x.val), SkipSpaces(s, x.next))

\* the elements of an array from position i on, a holds the elements read so far
JElements(s, i, a) == JElementValue(s, a, JValue(s, i))

\* the whole text must be one value
JSONResult(s, r) ==
  IF r.ok /\ SkipSpaces(s, r.next) > Len(s)
  THEN [threw |-> FALSE, value |-> r.val]
  ELSE [threw |-> TRUE, value |-> Undefined]

\* JSON.parse(s): [threw |-> TRUE] stands for the SyntaxError
JSONParse(s) == JSONResult(s, JValue(s, 1))

(***************************************************************************)
(* Regular expressions of the generator-text parser                        *)
(***************************************************************************)
NoMatch == [found |-> FALSE, start |-> 0, end |-> 0, group |-> ""]

\* The leftmost match of  marker \s* ( open inner close )  in s, where inner
\* is the shortest text up to the first close, has at least minInner
\* characters and, when dot is TRUE, holds no line terminator.
\*   hashesRegex       /, Hashes:\s*({[^}]+})/
\*   civitaiResources  /, Civitai resources:\s*(\[\{.*?\}\])/
\*   civitaiMetadata   /, Civitai metadata:\s*(\{.*?\})/
MatchBlock(s, marker, open, close, minInner, dot) ==
  LET GroupStart(p) == SkipSpaces(s, p + Len(marker))
      CloseAt(p) == IndexOfFrom(s, close, GroupStart(p) + Len(open))
      Inner(p) == SubSeq(s, GroupStart(p) + Len(open), CloseAt(p) - 1)
      Matches(p) ==
        /\ StartsWithAt(s, marker, p)
        /\ StartsWithAt(s, open, GroupStart(p))
        /\ CloseAt(p) # 0
        /\ CloseAt(p) >= GroupStart(p) + Len(open) + minInner
        /\ dot => (~Includes(Inner(p), "\n") /\ ~Includes(Inner(p), "\r"))
      starts == {p \in 1..Len(s) : Matches(p)}
  IN IF starts = {} THEN NoMatch
     ELSE LET p == Min(starts)
          IN [found |-> TRUE, start |-> p, end |-> CloseAt(p) + Len(close) - 1,
              group |-> SubSeq(s, GroupStart(p), CloseAt(p) + Len(close) - 1)]

hashesRegex(s) == MatchBlock(s, ", Hashes:", "{", "}", 1, FALSE)
civitaiResources(s) == MatchBlock(s, ", Civitai resources:", "[{", "}]", 0, TRUE)
civitaiMetadata(s) == MatchBlock(s, ", Civitai metadata:", "{", "}", 0, TRUE)

\* s.replace(regex, '') for a match m of the regex in s
RemoveMatch(s, m) == SubSeq(s, 1, m.start - 1) \o SubSeq(s, m.end + 1, Len(s))

\* /[\w\s]+: /.test(line)
HasKeyPattern(line) ==
  \E i \in 2..Len(line) :
    StartsWithAt(line, ": ", i) /\ Ch(line, i - 1) \in (WordChars \cup Whitespace)

\* line.replace(/\,\s*$/, '')
StripTrailingComma(line) ==
  LET cs == {p \in 1..Len(line) :
               Ch(line, p) = "," /\ SkipSpaces(line, p + 1) > Len(line)}
  IN IF cs = {} THEN line ELSE SubSeq(line, 1, Min(cs) - 1)

ExtraNetNameChars == WordChars \cup {".", "-"}
ExtraNetWeightChars == Digits \cup {"."}

\* one match of automaticExtraNetsRegex
\*   /<(lora|hypernet):([a-zA-Z0-9_\.\-]+):([0-9.]+)>/
\* starting exactly at position p
ExtraNetAt(s, p) ==
  LET kind == IF StartsWithAt(s, "<lora:", p) THEN "lora"
              ELSE IF StartsWithAt(s, "<hypernet:", p) THEN "hypernet" ELSE ""
      nb == p + Len(kind) + 2
      ne == RunEnd(s, nb, ExtraNetNameChars)
      wb == ne + 2
      we == RunEnd(s, wb, ExtraNetWeightChars)
  IN IF /\ kind # ""
        /\ ne >= nb
        /\ ne + 1 <= Len(s) /\ Ch(s, ne + 1) = ":"
        /\ we >= wb
        /\ we + 1 <= Len(s) /\ Ch(s, we + 1) = ">"
     THEN [found |-> TRUE, type |-> kind, name |-> SubSeq(s, nb, ne),
           weight |-> SubSeq(s, wb, we), end |-> we + 1]
     ELSE [found |-> FALSE, type |-> "", name |-> "", weight |-> "", end |-> 0]

\* [...prompt.matchAll(automaticExtraNetsRegex)], scanning from position p:
\* a match can only start at a "<"
RECURSIVE MatchAllExtraNets(_, _)
MatchAllExtraNets(s, p) ==
  LET lt == IndexOfFrom(s, "<", p)
      m == ExtraNetAt(s, lt)
  IN IF lt = 0 THEN <<>>
     ELSE IF m.found THEN <<m>> \o MatchAllExtraNets(s, m.end + 1)
     ELSE MatchAllExtraNets(s, lt + 1)

NameHashNameChars == WordChars \cup {"."}
NameHashHashChars == Lower \cup Upper \cup Digits

\* the start of the run of characters of class cls that ends at position i
RECURSIVE RunStart(_, _, _)
RunStart(s, i, cls) ==
  IF i >= 1 /\ Ch(s, i) \in cls THEN RunStart(s, i - 1, cls) ELSE i + 1

\* fullname.match(automaticNameHash) ?? [] for
\*   automaticNameHash = /([a-zA-Z0-9_\.]+)\(([a-zA-Z0-9]+)\)/
\* as [name, hash]; both undefined when there is no match
automaticNameHash(s) ==
  LET Ok(p) ==
        /\ Ch(s, p) = "("
        /\ p >= 2 /\ Ch(s, p - 1) \in NameHashNameChars
        /\ RunEnd(s, p + 1, NameHashHashChars) >= p + 1
        /\ RunEnd(s, p + 1, NameHashHashChars) + 1 <= Len(s)
        /\ Ch(s, RunEnd(s, p + 1, NameHashHashChars) + 1) = ")"
      ps == {p \in 1..Len(s) : Ok(p)}
  IN IF ps = {} THEN [name |-> Undefined, hash |-> Undefined]
     ELSE LET p == Min(ps)
          IN [name |-> Str(SubSeq(s, RunStart(s, p - 1, NameHashNameChars), p - 1)),
              hash |-> Str(SubSeq(s, p + 1, RunEnd(s, p + 1, NameHashHashChars)))]

\* s.toLowerCase() on the letters A-Z
RECURSIVE toLowerCase(_)
toLowerCase(s) ==
  IF s = "" THEN ""
  ELSE LET c == Ch(s, 1)
           i == IndexOf("ABCDEFGHIJKLMNOPQRSTUVWXYZ", c)
       IN (IF i = 0 THEN c ELSE Ch("abcdefghijklmnopqrstuvwxyz", i))
          \o toLowerCase(SubSeq(s, 2, Len(s)))

(***************************************************************************)
(* automaticMetadataProcessor.parse                                        *)
(***************************************************************************)
\* array.splice(i, 1) for a 1-based index
RemoveAt(seq, i) == SubSeq(seq, 1, i - 1) \o SubSeq(seq, i + 1, Len(seq))

\* metaLines.indexOf(x) + 1
SeqIndexOf(seq, x) ==
  IF \E i \in 1..Len(seq) : seq[i] = x
  THEN Min({i \in 1..Len(seq) : seq[i] = x})
  ELSE 0

\* metaLines.findIndex((line) => line.startsWith(key)) + 1
FindLineIndex(lines, key) ==
  IF \E i \in 1..Len(lines) : StartsWith(lines[i], key)
  THEN Min({i \in 1..Len(lines) : StartsWith(lines[i], key)})
  ELSE 0

\* a removal that drops every line from position i on
DropToEnd(lines, i) == SubSeq(lines, 1, i - 1)

\* the while loop of the template removal: drop the lines from position i on
\* until one holds a `key: ` pattern
RECURSIVE DropUntilKey(_, _)
DropUntilKey(lines, i) ==
  IF i <= Len(lines) /\ ~HasKeyPattern(lines[i])
  THEN DropUntilKey(RemoveAt(lines, i), i)
  ELSE lines

\* Remove templates: the for loop over templateKeys, from the k-th key on
RECURSIVE RemoveTemplates(_, _)
RemoveTemplates(lines, k) ==
  IF k > Len(templateKeys) THEN lines
  ELSE LET templateLineIndex == FindLineIndex(lines, templateKeys[k])
       IN IF templateLineIndex = 0 THEN RemoveTemplates(lines, k + 1)
          ELSE RemoveTemplates(DropUntilKey(RemoveAt(lines, templateLineIndex),
                                            templateLineIndex), k + 1)

\* generationDetails.split('\n').filter((line) => line.trim() !== '')
SplitMetaLines(text) == SelectSeq(Split(text, "\n"), LAMBDA line : Trim(line) # "")

\* metaLines.find((line) => line.startsWith('Steps: '))?.replace(/\,\s*$/, '')
FindDetailsLine(lines) ==
  IF FindLineIndex(lines, "Steps: ") = 0 THEN Undefined
  ELSE Str(StripTrailingComma(lines[FindLineIndex(lines, "Steps: ")]))

\* if (detailsLine) metaLines.splice(metaLines.indexOf(detailsLine), 1);
\* indexOf gives -1 when no line equals the stripped details line, and
\* splice(-1, 1) then removes the last line
StripDetailsLine(lines, detailsLine) ==
  IF ~Truthy(detailsLine) THEN lines
  ELSE IF SeqIndexOf(lines, detailsLine.v) # 0
       THEN RemoveAt(lines, SeqIndexOf(lines, detailsLine.v))
       ELSE RemoveAt(lines, Len(lines))

\* the loop over badExtensionKeys, from the k-th key on
RECURSIVE CutBadExtensions(_, _)
CutBadExtensions(detailsLine, k) ==
  IF k > Len(badExtensionKeys) \/ ~Truthy(detailsLine) THEN detailsLine
  ELSE IF Includes(detailsLine.v, badExtensionKeys[k])
       THEN CutBadExtensions(Str(Split(detailsLine.v, badExtensionKeys[k])[1]), k + 1)
       ELSE CutBadExtensions(detailsLine, k + 1)

\* for (const [k, v] of Object.entries(details)): copy the entries from the
\* i-th on into metadata under the renamed key, skipping the excluded keys
RECURSIVE CopyDetails(_, _, _), CopyDetailsAll(_, _, _)
\* the copy of the details without the exclusion list
CopyDetailsAll(metadata, details, i) ==
  IF i > Len(details.v) THEN metadata
  ELSE CopyDetailsAll(ObjSet(metadata, SDKeyMapGet(details.v[i][1]), details.v[i][2]),
                      details, i + 1)

CopyDetails(metadata, details, i) ==
  IF i > Len(details.v) THEN metadata
  ELSE LET key == SDKeyMapGet(details.v[i][1])
       IN IF key \in excludedKeys THEN CopyDetails(metadata, details, i + 1)
          ELSE CopyDetails(ObjSet(metadata, key, details.v[i][2]), details, i + 1)

\* Object.entries(x): the entries of an object, the index/character pairs of
\* a string, nothing for the other values
ObjectEntries(x) ==
  IF x.t = "obj" THEN x.v
  ELSE IF x.t = "str" THEN [i \in 1..Len(x.v) |-> <<NatToString(i - 1), Str(Ch(x.v, i))>>]
  ELSE IF x.t = "arr" THEN [i \in 1..Len(x.v) |-> <<NatToString(i - 1), x.v[i]>>]
  ELSE <<>>

\* const resources = extranets.map(([, type, name, weight]) => ({...}))
ResourcesOf(ms) ==
  [i \in 1..Len(ms) |->
     Obj(<<<<"type", Str(ms[i].type)>>, <<"name", Str(ms[i].name)>>,
           <<"weight", parseFloat(Str(ms[i].weight))>>>>)]

InlineResources(prompt) == ResourcesOf(MatchAllExtraNets(prompt, 1))

\* resources.find((r) => r.name === name), as a position (0: none)
FindResource(resources, name) ==
  IF \E i \in 1..Len(resources) : ObjGet(resources[i], "name") = Str(name)
  THEN Min({i \in 1..Len(resources) : ObjGet(resources[i], "name") = Str(name)})
  ELSE 0

\* metadata.hashes[k] = x
SetHash(metadata, k, x) ==
  ObjSet(metadata, "hashes", ObjSet(ObjGet(metadata, "hashes"), k, x))

\* if (!metadata.hashes) metadata.hashes = {};
EnsureHashes(metadata) ==
  IF Truthy(ObjGet(metadata, "hashes")) THEN metadata
  ELSE ObjSet(metadata, "hashes", EmptyRecord)

\* the merge without the lookup by name: every table entry is pushed
RECURSIVE MergeLoraHashesAlwaysPush(_, _, _)
MergeLoraHashesAlwaysPush(st, entries, i) ==
  IF i > Len(entries) THEN st
  ELSE MergeLoraHashesAlwaysPush(
         [st EXCEPT
            !.metadata = SetHash(st.metadata, "lora:" \o entries[i][1], entries[i][2]),
            !.resources =
              Append(st.resources,
                Obj(<<<<"type", Str("lora")>>, <<"name", Str(entries[i][1])>>,
                      <<"hash", entries[i][2]>>>>))],
         entries, i + 1)

\* the loop over Object.entries(metadata['Lora hashes']), from the i-th entry
\* on; st = [metadata, resources]
RECURSIVE MergeLoraHashes(_, _, _)
MergeLoraHashes(st, entries, i) ==
  IF i > Len(entries) THEN st
  ELSE LET name == entries[i][1]
           hash == entries[i][2]
           r == FindResource(st.resources, name)
       IN MergeLoraHashes(
            [st EXCEPT
               !.metadata = SetHash(st.metadata, "lora:" \o name, hash),
               !.resources =
                 IF r # 0
                 THEN [st.resources EXCEPT ![r] = ObjSet(st.resources[r], "hash", hash)]
                 ELSE Append(st.resources,
                        Obj(<<<<"type", Str("lora")>>, <<"name", Str(name)>>,
                              <<"hash", hash>>>>))],
            entries, i + 1)

\* Extract Lora hashes
ExtractLoraHashes(st) ==
  IF ~Truthy(ObjGet(st.metadata, "Lora hashes")) THEN st
  ELSE LET merged == MergeLoraHashes(
                       [st EXCEPT !.metadata = EnsureHashes(st.metadata)],
                       ObjectEntries(ObjGet(st.metadata, "Lora hashes")), 1)
       IN [merged EXCEPT !.metadata = ObjDelete(merged.metadata, "Lora hashes")]

\* Extract VAE
ExtractVAE(st) ==
  IF ~Truthy(ObjGet(st.metadata, "VAE hash")) THEN st
  ELSE [st EXCEPT !.metadata =
          ObjDelete(SetHash(EnsureHashes(st.metadata), "vae",
                            ObjGet(st.metadata, "VAE hash")), "VAE hash")]

\* Extract Model hash
ExtractModelHash(st) ==
  IF ~(Truthy(ObjGet(st.metadata, "Model")) /\ Truthy(ObjGet(st.metadata, "Model hash")))
  THEN st
  ELSE LET m == EnsureHashes(st.metadata)
       IN [st EXCEPT
             !.metadata =
               IF Truthy(ObjGet(ObjGet(m, "hashes"), "model")) THEN m
               ELSE SetHash(m, "model", ObjGet(m, "Model hash")),
             !.resources =
               Append(st.resources,
                 Obj(<<<<"type", Str("model")>>, <<"name", ObjGet(m, "Model")>>,
                       <<"hash", ObjGet(m, "Model hash")>>>>))]

\* the parse without the hypernetwork step
ExtractHypernetSkipped(st) == st

\* Extract hypernetwork details
ExtractHypernet(st) ==
  IF ~(Truthy(ObjGet(st.metadata, "Hypernet"))
       /\ Truthy(ObjGet(st.metadata, "Hypernet strength")))
  THEN st
  ELSE [st EXCEPT !.resources =
          Append(st.resources,
            Obj(<<<<"type", Str("hypernet")>>,
                  <<"name", ObjGet(st.metadata, "Hypernet")>>,
                  <<"weight", parseFloat(ObjGet(st.metadata, "Hypernet strength"))>>>>))]

\* the AddNet while loop from slot i on; [threw |-> TRUE] is the TypeError of
\* fullname.match or of toLowerCase on a value that is not a string
RECURSIVE AddNetLoop(_, _, _)
AddNetLoop(metadata, resources, i) ==
  LET fullname == ObjGet(metadata, "AddNet Model " \o NatToString(i))
      module == ObjGet(metadata, "AddNet Module " \o NatToString(i))
      nh == automaticNameHash(fullname.v)
  IN IF ~Truthy(fullname) THEN [threw |-> FALSE, resources |-> resources]
     ELSE IF fullname.t # "str" \/ module.t # "str"
     THEN [threw |-> TRUE, resources |-> resources]
     ELSE AddNetLoop(metadata,
            Append(resources,
              Obj(<<<<"type", Str(toLowerCase(module.v))>>, <<"name", nh.name>>,
                    <<"hash", nh.hash>>,
                    <<"weight", parseFloat(ObjGet(metadata,
                                  "AddNet Weight " \o NatToString(i)))>>>>)),
            i + 1)

ExtractAddNet(st) ==
  IF ObjGet(st.metadata, "AddNet Enabled") # Str("True")
  THEN [threw |-> FALSE, resources |-> st.resources]
  ELSE AddNetLoop(st.metadata, st.resources, 1)

Threw == [threw |-> TRUE, value |-> Undefined]
Returned(x) == [threw |-> FALSE, value |-> x]

\* lines 204-228: the prompt lines and the details line; st = [threw,
\* metadata, lines, line]
WithDetails(metaLines, found) ==
  [threw |-> FALSE, metadata |-> EmptyRecord,
   lines |-> StripDetailsLine(metaLines, found),
   line |-> CutBadExtensions(found, 1)]

SplitDetails(metaLines) == WithDetails(metaLines, FindDetailsLine(metaLines))

DetailsStage(generationDetails) ==
  SplitDetails(RemoveTemplates(SplitMetaLines(generationDetails), 1))

\* metadata[key] = JSON.parse(group); detailsLine = detailsLine.replace(regex, '')
StoreJson(st, m, key, j) ==
  IF j.threw THEN [st EXCEPT !.threw = TRUE]
  ELSE [st EXCEPT !.metadata = ObjSet(@, key, j.value),
                  !.line = Str(RemoveMatch(st.line.v, m))]

ExtractJson(st, m, key) ==
  IF m.found THEN StoreJson(st, m, key, JSONParse(m.group)) ELSE st

\* if (Object.keys(data).length !== 0) metadata.extra = data
StoreExtra(st, m, j) ==
  IF j.threw THEN [st EXCEPT !.threw = TRUE]
  ELSE [st EXCEPT !.metadata =
                    IF Len(ObjectEntries(j.value)) # 0
                    THEN ObjSet(@, "extra", j.value) ELSE @,
                  !.line = Str(RemoveMatch(st.line.v, m))]

ExtractExtra(st, m) ==
  IF m.found THEN StoreExtra(st, m, JSONParse(m.group)) ELSE st

\* Extract Hashes
ExtractHashes(st) ==
  IF st.threw \/ ~Truthy(st.line) THEN st
  ELSE ExtractJson(st, hashesRegex(st.line.v), "hashes")

\* Extract Civitai Resources
ExtractCivitaiResources(st) ==
  IF st.threw \/ ~Truthy(st.line) THEN st
  ELSE ExtractJson(st, civitaiResources(st.line.v), "civitaiResources")

\* Extract Civitai Metadata
ExtractCivitaiMetadata(st) ==
  IF st.threw \/ ~Truthy(st.line) THEN st
  ELSE ExtractExtra(st, civitaiMetadata(st.line.v))

\* Extract fine details
ExtractFineDetails(st) ==
  IF st.threw THEN st
  ELSE [st EXCEPT !.metadata = CopyDetails(@, parseDetailsLine(st.line), 1)]

\* Extract prompts
SetPrompts(st, parts) ==
  [st EXCEPT !.metadata =
     ObjSet(ObjSet(@, "prompt", Str(Trim(parts[1]))),
            "negativePrompt",
            Str(Trim(Join([i \in 1..(Len(parts) - 1) |-> Trim(parts[i + 1])], " "))))]

ExtractPrompts(st) ==
  IF st.threw THEN st
  ELSE SetPrompts(st, Split(Join(st.lines, "\n"), "Negative prompt:"))

\* Extract inline resources
ExtractInline(st) ==
  IF st.threw THEN [threw |-> TRUE, metadata |-> EmptyRecord, resources |-> <<>>]
  ELSE [threw |-> FALSE, metadata |-> st.metadata,
        resources |-> InlineResources(ObjGet(st.metadata, "prompt").v)]

\* lines 199-274 of parse for the text generationDetails: the record and the
\* resources as they stand before "Extract Lora hashes"; threw when one of
\* the three JSON.parse calls raised
PromptStage(generationDetails) ==
  ExtractInline(ExtractPrompts(ExtractFineDetails(ExtractCivitaiMetadata(
    ExtractCivitaiResources(ExtractHashes(DetailsStage(generationDetails)))))))

\* line 333: metadata.resources = resources
WithResources(st, an) ==
  IF an.threw THEN Threw
  ELSE Returned(ObjSet(st.metadata, "resources", Arr(an.resources)))

\* lines 316-335
FinishParse(st) == IF st.threw THEN Threw ELSE WithResources(st, ExtractAddNet(st))

\* automaticMetadataProcessor.parse(exif): [threw |-> TRUE] is an exception
\* leaving parse, otherwise value is the returned record
AutomaticParse(exif) ==
  IF ~Truthy(exif.generationDetails) THEN Returned(EmptyRecord)
  ELSE IF exif.generationDetails.t # "str" THEN Threw
  ELSE FinishParse(ExtractHypernet(ExtractModelHash(ExtractVAE(ExtractLoraHashes(
         PromptStage(exif.generationDetails.v))))))

(***************************************************************************)
(* automaticMetadataProcessor.encode                                       *)
(***************************************************************************)
\* String(x), as a template literal `${x}` renders a value
RECURSIVE JSString(_)
JSString(x) ==
  CASE x.t = "str" -> x.v
    [] x.t = "num" -> NumToString(x)
    [] x.t = "nan" -> "NaN"
    [] x.t = "undef" -> "undefined"
    [] x.t = "null" -> "null"
    [] x.t = "bool" -> IF x.v THEN "true" ELSE "false"
    [] x.t = "obj" -> "[object Object]"
    [] x.t = "arr" ->
         Join([i \in 1..Len(x.v) |->
                 IF x.v[i].t \in {"undef", "null"} THEN "" ELSE JSString(x.v[i])], ",")
    [] OTHER -> "[object Object]"

\* the keys the parameter list of encode takes out of the record
EncodeNamed == {"prompt", "negativePrompt", "resources", "steps"}

\* the loop over Object.entries(other), from the i-th entry of the record on
RECURSIVE EncodeOther(_, _)
EncodeOther(meta, i) ==
  IF i > Len(meta.v) THEN <<>>
  ELSE LET k == meta.v[i][1]
           key == SDEncodeMapGet(k)
       IN IF k \in EncodeNamed \/ key \in excludedKeys THEN EncodeOther(meta, i + 1)
          ELSE <<key \o ": " \o JSString(meta.v[i][2])>> \o EncodeOther(meta, i + 1)

\* an array element as join renders it
JoinItem(x) == IF x.t \in {"undef", "null"} THEN "" ELSE JSString(x)

\* automaticMetadataProcessor.encode(meta)
AutomaticEncode(meta) ==
  LET prompt == ObjGet(meta, "prompt")
      negativePrompt == ObjGet(meta, "negativePrompt")
      steps == ObjGet(meta, "steps")
      fineDetails ==
        (IF Truthy(steps) THEN <<"Steps: " \o JSString(steps)>> ELSE <<>>)
          \o EncodeOther(meta, 1)
      lines ==
        <<JoinItem(prompt)>>
          \o (IF Truthy(negativePrompt)
              THEN <<"Negative prompt: " \o JSString(negativePrompt)>> ELSE <<>>)
          \o (IF Len(fineDetails) > 0 THEN <<Join(fineDetails, ", ")>> ELSE <<>>)
  IN Join(lines, "\n")

(***************************************************************************)
(* Encoding repair helper                                                  *)
(***************************************************************************)
\* the printable ASCII characters, code 32 first (the grave accent, code 96,
\* cannot be written in a string of the module and is shown as "?")
AsciiTable ==
  " !\"#$%&'()*+,-./0123456789:;<=>?@ABCDEFGHIJKLMNOPQRSTUVWXYZ[\\]^_?abcdefghijklmnopqrstuvwxyz{|}~"

\* String.fromCharCode for one UTF-16 code unit
CodeUnitChar(u) ==
  IF u = 10 THEN "\n"
  ELSE IF u >= 32 /\ u <= 126 THEN Ch(AsciiTable, u - 31)
  ELSE "?"

\* decodeBigEndianUTF16(buffer): drop a leading byte-order mark, read the
\* bytes in pairs, high byte first; a trailing single byte is dropped
RECURSIVE DecodePairs(_, _)
DecodePairs(bytes, i) ==
  IF i + 1 > Len(bytes) THEN ""
  ELSE CodeUnitChar(bytes[i] * 256 + bytes[i + 1]) \o DecodePairs(bytes, i + 2)

decodeBigEndianUTF16(buffer) ==
  IF Len(buffer) >= 2 /\ buffer[1] = 254 /\ buffer[2] = 255
  THEN DecodePairs(buffer, 3)
  ELSE DecodePairs(buffer, 1)

(***************************************************************************)
(* Descriptors: detection                                                  *)
(***************************************************************************)
TagNames ==
  {"MakerNote", "parameters", "UserComment", "userComment", "prompt", "workflow",
   "Model", "generationDetails"}

NoTags == [n \in TagNames |-> Undefined]

\* x.includes('Steps: ') for a string or an array; threw for a value that has
\* no includes method
IncludesSteps(x) ==
  IF x.t = "str" THEN [threw |-> FALSE, value |-> Includes(x.v, "Steps: ")]
  ELSE IF x.t = "arr"
  THEN [threw |-> FALSE, value |-> \E i \in 1..Len(x.v) : x.v[i] = Str("Steps: ")]
  ELSE [threw |-> TRUE, value |-> FALSE]

\* a canParse that trusts a generationDetails field already on the tag map
AutomaticCanParseCached(exif) ==
  LET generationDetails ==
        IF Truthy(exif.parameters) THEN exif.parameters
        ELSE IF Truthy(exif.userComment)
        THEN Str(decodeBigEndianUTF16(exif.userComment.v))
        ELSE Undefined
  IN IF Truthy(exif.generationDetails)
     THEN [threw |-> FALSE, value |-> TRUE, exif |-> exif]
     ELSE IF Truthy(generationDetails)
     THEN [threw |-> IncludesSteps(generationDetails).threw,
           value |-> IncludesSteps(generationDetails).value,
           exif |-> [exif EXCEPT !.generationDetails = generationDetails]]
     ELSE [threw |-> FALSE, value |-> FALSE, exif |-> exif]

\* automaticMetadataProcessor.canParse(exif): the verdict, whether the call
\* threw, and the tag map as the call leaves it
AutomaticCanParse(exif) ==
  LET generationDetails ==
        IF Truthy(exif.parameters) THEN exif.parameters
        ELSE IF Truthy(exif.userComment)
        THEN Str(decodeBigEndianUTF16(exif.userComment.v))
        ELSE Undefined
  IN IF Truthy(generationDetails)
     THEN [threw |-> IncludesSteps(generationDetails).threw,
           value |-> IncludesSteps(generationDetails).value,
           exif |-> [exif EXCEPT !.generationDetails = generationDetails]]
     ELSE [threw |-> FALSE, value |-> FALSE, exif |-> exif]

\* exif?.Model?.[0]: the first element of an array, the first character of a
\* string
FirstOf(x) ==
  IF x.t = "arr" THEN (IF Len(x.v) > 0 THEN x.v[1] ELSE Undefined)
  ELSE IF x.t = "str" THEN (IF Len(x.v) > 0 THEN Str(Ch(x.v, 1)) ELSE Undefined)
  ELSE Undefined

\* comfyMetadataProcessor.canParse(exif)
ComfyCanParse(exif) ==
  LET first == FirstOf(exif.Model)
  IN IF Truthy(exif.prompt) \/ Truthy(exif.workflow)
     THEN [threw |-> FALSE, value |-> TRUE, exif |-> exif]
     ELSE IF first.t \in {"undef", "null"}
     THEN [threw |-> FALSE, value |-> FALSE, exif |-> exif]
     ELSE IF first.t # "str"
     THEN [threw |-> TRUE, value |-> FALSE, exif |-> exif]
     ELSE IF StartsWith(first.v, "prompt:")
     THEN LET comfyJson == Str(SubSeq(first.v, Len("prompt:") + 1, Len(first.v)))
          IN [threw |-> FALSE, value |-> TRUE,
              exif |-> [exif EXCEPT !.prompt = comfyJson, !.workflow = comfyJson]]
     ELSE [threw |-> FALSE, value |-> FALSE, exif |-> exif]

\* cleanBadJson(text): drop the commas that stand right before a closing
\* brace or bracket
RECURSIVE cleanBadJson(_)
cleanBadJson(text) ==
  LET bad == {i \in 1..Len(text) :
                /\ Ch(text, i) = ","
                /\ SkipSpaces(text, i + 1) <= Len(text)
                /\ Ch(text, SkipSpaces(text, i + 1)) \in {"}", "]"}}
  IN IF bad = {} THEN text
     ELSE cleanBadJson(SubSeq(text, 1, Min(bad) - 1) \o SubSeq(text, Min(bad) + 1, Len(text)))

\* comfyMetadataProcessor.parse(exif): the graph blob is deserialized; the
\* record keeps the raw blobs under comfy
ComfyParse(exif) ==
  IF exif.prompt.t # "str" THEN Threw
  ELSE IF JSONParse(cleanBadJson(exif.prompt.v)).threw THEN Threw
  ELSE Returned(Obj(<<<<"comfy",
         Str("{\"prompt\": " \o JSString(exif.prompt)
             \o ", \"workflow\": " \o JSString(exif.workflow) \o "}")>>>>))

\* the registry with the two descriptors in the other order
parsersComfyFirst == <<"comfy", "automatic">>

\* const parsers = { automatic, comfy }: Object.values(parsers) in order
parsers == <<"automatic", "comfy">>

CanParse(name, exif) ==
  IF name = "automatic" THEN AutomaticCanParse(exif) ELSE ComfyCanParse(exif)

Parse(name, exif) ==
  IF name = "automatic" THEN AutomaticParse(exif) ELSE ComfyParse(exif)

\* encodeMetadata(meta), type 'automatic'
encodeMetadata(meta) == AutomaticEncode(meta)

\* parsePromptMetadata(generationDetails)
parsePromptMetadata(generationDetails) ==
  AutomaticParse([NoTags EXCEPT !.generationDetails = Str(generationDetails)])

(***************************************************************************)
(* saveImageWithMetadata                                                   *)
(***************************************************************************)
\* one character of a string literal as JSON.stringify writes it
EscapeChar(c) ==
  IF c = "\"" THEN "\\\"" ELSE IF c = "\\" THEN "\\\\" ELSE IF c = "\n" THEN "\\n" ELSE c

\* the characters lo..hi of s, escaped
RECURSIVE EscapeRange(_, _, _)
EscapeRange(s, lo, hi) ==
  IF lo > hi THEN ""
  ELSE IF lo = hi THEN EscapeChar(Ch(s, lo))
  ELSE EscapeRange(s, lo, (lo + hi) \div 2) \o EscapeRange(s, (lo + hi) \div 2 + 1, hi)

Quoted(s) == "\"" \o EscapeRange(s, 1, Len(s)) \o "\""

\* JSON.stringify(x): a member whose value is undefined is left out, an
\* array element that is undefined is written as null
RECURSIVE JSONStringify(_), StringifyMembers(_, _), StringifyElements(_, _)
JSONStringify(x) ==
  CASE x.t = "str" -> Quoted(x.v)
    [] x.t = "num" -> NumToString(x)
    [] x.t = "bool" -> IF x.v THEN "true" ELSE "false"
    [] x.t = "obj" -> "{" \o Join(StringifyMembers(x.v, 1), ",") \o "}"
    [] x.t = "arr" -> "[" \o Join(StringifyElements(x.v, 1), ",") \o "]"
    [] OTHER -> "null"

StringifyMembers(entries, i) ==
  IF i > Len(entries) THEN <<>>
  ELSE IF entries[i][2].t = "undef" THEN StringifyMembers(entries, i + 1)
  ELSE <<Quoted(entries[i][1]) \o ":" \o JSONStringify(entries[i][2])>>
         \o StringifyMembers(entries, i + 1)

StringifyElements(items, i) ==
  IF i > Len(items) THEN <<>>
  ELSE <<JSONStringify(items[i])>> \o StringifyElements(items, i + 1)

\* the MIME types of the files the drop zone accepts
FileTypes == {"image/png", "image/jpeg", "image/webp"}

\* originalFile?.type.includes('png') ? 'png' : 'jpeg'
FormatOf(type) == IF Includes(type, "png") THEN "png" ELSE "jpeg"

\* lines 33-38: the text to embed
MetadataString(meta) ==
  IF Truthy(ObjGet(meta, "prompt")) THEN encodeMetadata(meta) ELSE JSONStringify(meta)

\* saveImageWithMetadata(canvas, metadata, format): the promise rejects when
\* toBlob yields no blob; a PNG gets a tEXt chunk 'parameters' unless the
\* chunk libraries throw; every other format resolves with the bare blob
saveImageWithMetadata(meta, format, blobOk, chunksOk) ==
  IF ~blobOk
  THEN [outcome |-> "rejected", type |-> "", format |-> format, text |-> Undefined]
  ELSE IF format = "png" /\ chunksOk
  THEN [outcome |-> "resolved", type |-> "", format |-> format,
        text |-> Str(MetadataString(meta))]
  ELSE [outcome |-> "resolved", type |-> "", format |-> format, text |-> Undefined]

(***************************************************************************)
(* getMetadata                                                             *)
(***************************************************************************)
\* lines 37-42: an exception of find/canParse/parse is caught and logged,
\* metadata keeps its initial value {}
InnerCatch(r) == IF r.threw THEN Returned(EmptyRecord) ELSE r

\* getMetadata without its outer catch: the exception leaves the function
OuterCatchRethrow(r) == r

\* lines 19 and 45-48: an exception anywhere in the body is caught, return {}
OuterCatch(r) == IF r.threw THEN Returned(EmptyRecord) ELSE r

\* getMetadata with neither catch: the result of lines 38-39 as it is
SettleRethrow(r) == r

\* the settled outcome of getMetadata for the result r of lines 38-39
Settle(r) == OuterCatch(InnerCatch(r))

\* a dispatch that falls back to the first descriptor when none matched
SelectedParseFallback(found) == IF found = "none" THEN "automatic" ELSE found

\* const { parse } = ...find(...) ?? {}: the descriptor whose parse is taken,
\* "none" when find found no descriptor
SelectedParse(found) == found

\* lines 22-34: the tag map built from the tags ExifReader loaded
BuildExif(tags) ==
  LET exif0 == [tags EXCEPT !.MakerNote = Undefined]
  IN IF Truthy(exif0.UserComment)
     THEN [exif0 EXCEPT !.userComment = [t |-> "i32", v |-> exif0.UserComment.v]]
     ELSE exif0

\* Object.values(parsers).find((x) => x.canParse(exif)), one descriptor per
\* step: the position of the next descriptor to ask, 0 when find is over
NextIndex(i, verdict) ==
  IF verdict.threw \/ verdict.value THEN 0
  ELSE IF i < Len(parsers) THEN i + 1 ELSE 0

(***************************************************************************)
(* Inputs                                                                  *)
(***************************************************************************)
MaxTags == 2
MaxTable == 2
MaxPairs == 2
MaxRuns == 2

\* the sequences over the elements of pool of length at most n
RECURSIVE SeqsUpTo(_, _)
SeqsUpTo(pool, n) ==
  IF n = 0 THEN {<<>>}
  ELSE SeqsUpTo(pool, n - 1)
         \cup {Append(q, x) : q \in {r \in SeqsUpTo(pool, n - 1) : Len(r) = n - 1},
                              x \in pool}

ExampleText ==
  "A beautiful landscape\nNegative prompt: ugly, blurry\nSteps: 20, Sampler: Euler a, CFG scale: 7, Seed: 12345, Size: 512x512, Model hash: 1234abcd, Model: modelName"

\* inline resource tags a prompt may carry
TagPool == {"<lora:myStyle:0.8>", "<hypernet:other:1>", "<lora:b:0.25>"}
\* entries a Lora hashes table may carry
TablePool == {"myStyle: abc123", "other: def456", "c: 0f0f"}

\* a prompt carrying the tags, and a details line carrying the table
LoraText(tags, table) ==
  Join(<<"portrait">> \o tags, " ") \o "\nSteps: 20"
    \o (IF Len(table) = 0 THEN ""
        ELSE ", Lora hashes: \"" \o Join(table, ", ") \o "\"")
    \o ", Seed: 7"

LoraTexts ==
  {LoraText(tags, table) : tags \in SeqsUpTo(TagPool, MaxTags),
                           table \in SeqsUpTo(TablePool, MaxTable)}

\* key: value pairs a details line may carry after the step count
PairPool ==
  {"Sampler: Euler a", "CFG scale: 7", "Seed: 12345", "Clip skip: 2",
   "Size: 512x512", "Model hash: 1234abcd", "Model: modelName",
   "Created Date: 2024-01-01T12:30:00"}

PairText(neg, steps, pairs) ==
  "A beautiful landscape"
    \o (IF neg = "" THEN "" ELSE "\nNegative prompt: " \o neg)
    \o "\n" \o Join(<<"Steps: " \o steps>> \o pairs, ", ")

PairTexts ==
  {PairText(neg, steps, pairs) : neg \in {"", "ugly, blurry"}, steps \in {"20", ""},
                                 pairs \in SeqsUpTo(PairPool, MaxPairs)}

\* details lines carrying the JSON-bearing suffixes, well-formed and not
BlockTexts ==
  {"castle\nSteps: 20, Seed: 1" \o block :
     block \in {", Hashes: {\"model\": \"aa11\", \"vae\": \"bb22\"}",
                ", Hashes: {\"model\": }",
                ", Civitai resources: [{\"type\": \"checkpoint\", \"modelVersionId\": 12}]",
                ", Civitai resources: [{\"type\": }]",
                ", Civitai metadata: {\"remixOfId\": 3}",
                ", Civitai metadata: {}",
                ", Civitai metadata: {remixOfId}",
                ", Model hash: cc33, Model: m1, Hashes: {\"model\": \"aa11\"}",
                ", Model hash: cc33, Model: m1, Hashes: {\"model\": \"\"}",
                ", Model hash: cc33, Hashes: {\"model\": \"aa11\"}",
                ", Hashes: {\"model\": 12}"}}

\* the pairs a details line is put together from: a key, a value and whether
\* the value is written in double quotes
MaxItems == 2

TokItems ==
  {[key |-> "Steps", value |-> "20", quoted |-> FALSE],
   [key |-> "Sampler", value |-> "Euler a", quoted |-> FALSE],
   [key |-> "Created Date", value |-> "2024-01-01T12:30:00", quoted |-> FALSE],
   [key |-> "Lora hashes", value |-> "myStyle: abc123, other: def456", quoted |-> TRUE],
   [key |-> "Hires prompt", value |-> "a cat, sitting", quoted |-> TRUE],
   [key |-> "Meta", value |-> "Created Date: 2024-01-01T12:30:00, Seed: 3",
    quoted |-> TRUE]}

ItemText(it) ==
  it.key \o ": " \o (IF it.quoted THEN "\"" \o it.value \o "\"" ELSE it.value)

ItemsLine(items) == Join([j \in 1..Len(items) |-> ItemText(items[j])], ", ")

\* details lines carrying an AddNet block: one slot, two slots, a gap at slot
\* 2, a block that is not enabled, a slot without its module field, and a
\* slot whose model is not written as name(hash)
AddNetTexts ==
  {"tower\nSteps: 20, AddNet Enabled: " \o block :
     block \in {"True, AddNet Module 1: LoRA, AddNet Model 1: foo(abc123), AddNet Weight 1: 0.5",
                "True, AddNet Module 1: LoRA, AddNet Model 1: foo(abc123), AddNet Weight 1: 0.5, AddNet Module 2: LoRA, AddNet Model 2: bar(def456), AddNet Weight 2: 0.25",
                "True, AddNet Module 1: LoRA, AddNet Model 1: foo(abc123), AddNet Weight 1: 0.5, AddNet Module 3: LoRA, AddNet Model 3: baz(0f0f), AddNet Weight 3: 1",
                "False, AddNet Module 1: LoRA, AddNet Model 1: foo(abc123), AddNet Weight 1: 0.5",
                "True",
                "True, AddNet Model 1: foo(abc123), AddNet Weight 1: 0.5",
                "True, AddNet Module 1: LoRA, AddNet Model 1: foo, AddNet Weight 1: 0.5"}}

\* details lines carrying the hypernetwork fields: both, one of them, and
\* both next to an inline hypernet tag
HypernetTexts ==
  {"hut\nSteps: 20, Hypernet: hn1, Hypernet strength: 0.75",
   "hut\nSteps: 20, Hypernet: hn1",
   "hut\nSteps: 20, Hypernet strength: 0.75",
   "hut <hypernet:other:1>\nSteps: 20, Hypernet: hn1, Hypernet strength: 0.75"}

\* texts of up to MaxLines lines with template sections in them
MaxLines == 3

LinePool ==
  {"Template: t1", "Negative Template: nt", "free text", "Extra: 1",
   "Steps: 20, Seed: 3"}

TemplateTexts == {Join(lines, "\n") : lines \in SeqsUpTo(LinePool, MaxLines)}

\* details lines carrying keys of the exclusion list next to renamed keys
ExcludedTexts ==
  {"moor\nSteps: 20, scheduler: Karras, Seed: 5",
   "moor\nSteps: 20, hashes: zz, denoise: 0.5, CFG scale: 7",
   "moor\nSteps: 20, VAE hash: bb22, Clip skip: 2, Sampler: Euler a, models: m"}

GeneratorTexts ==
  {ExampleText} \cup LoraTexts \cup PairTexts \cup BlockTexts \cup AddNetTexts
    \cup HypernetTexts \cup ExcludedTexts

\* the bytes of text in big-endian UTF-16 behind a byte-order mark
RECURSIVE UTF16BE(_)
UTF16BE(text) ==
  IF text = "" THEN <<>>
  ELSE <<0, IndexOf(AsciiTable, Ch(text, 1)) + 31>> \o UTF16BE(SubSeq(text, 2, Len(text)))

GraphJson == "{\"3\": {\"class_type\": \"KSampler\", \"inputs\": {\"steps\": 20}}}"
BadGraphJson == "{\"3\": {\"class_type\": "

\* tag maps with one generator text under parameters
TextFiles == {[NoTags EXCEPT !.parameters = Str(text)] : text \in GeneratorTexts}

\* tag maps of every shape: each tag absent or present with a value of each
\* kind the tag reader can produce
ShapeFiles ==
  {[NoTags EXCEPT !.parameters = p, !.UserComment = u, !.prompt = g,
                  !.workflow = w, !.Model = m, !.MakerNote = k] :
     p \in {Undefined, Str(ExampleText), Str("hello world"),
            Str("a note\nwith Steps: 5 inside"), Num(7), Arr(<<Str("Steps: ")>>)},
     u \in {Undefined, [t |-> "bytes", v |-> <<254, 255>> \o UTF16BE("Steps: 20")],
            [t |-> "bytes", v |-> UTF16BE("hi")]},
     g \in {Undefined, Str(GraphJson), Str(BadGraphJson)},
     w \in {Undefined, Str(GraphJson)},
     m \in {Undefined, Arr(<<Str("prompt:" \o GraphJson)>>), Arr(<<Str("Canon")>>),
            Arr(<<Num(3)>>)},
     k \in {Undefined, Str("maker")}}

Files == TextFiles \cup ShapeFiles

Null == [t |-> "null", v |-> ""]

\* the files a user may select or drop
UiFiles ==
  {[name |-> "a.png", type |-> "image/png",
    tags |-> [NoTags EXCEPT !.parameters = Str(ExampleText)]],
   [name |-> "b.jpg", type |-> "image/jpeg",
    tags |-> [NoTags EXCEPT !.parameters = Str("castle\nNegative prompt: fog\nSteps: 20, Seed: 1")]],
   [name |-> "c.png", type |-> "image/png", tags |-> NoTags],
   [name |-> "d.png", type |-> "image/png",
    tags |-> [NoTags EXCEPT !.prompt = Str(GraphJson)]],
   [name |-> "notes.txt", type |-> "text/plain", tags |-> NoTags]}

FileNamed(name) == CHOOSE f \in UiFiles : f.name = name

\* what a user may type into the Edit tab
TypedTexts == {"a tower at dusk", "{}"}

\* the number of uploads of a session
MaxUploads == 2

NoBlob == [outcome |-> "none", crop |-> "", metaFile |-> "", text |-> Undefined]

\* no edited save yet; edited is the editor text and prompted whether the
\* record had a prompt when the save was made
NoEdit ==
  [outcome |-> "none", edited |-> Undefined, prompted |-> FALSE, text |-> Undefined]

\* useState initial values; lastStarted, metaFile and typedFor record which
\* file the last processImage was started for, which file the metadata was
\* extracted from and for which image the user has typed
UiIdle ==
  [image |-> "", originalFile |-> "", metadata |-> Null, metaFile |-> "",
   loading |-> FALSE, error |-> FALSE, showCropper |-> FALSE, cropperImage |-> "",
   croppedCanvas |-> "", inflight |-> <<>>, uploads |-> 0, lastStarted |-> "",
   mounted |-> FALSE, editedMetadata |-> Undefined, typedFor |-> "",
   download |-> NoBlob, savedEdit |-> NoEdit]

(***************************************************************************)
(* State                                                                   *)
(***************************************************************************)
VARIABLES
  pc,        \* "idle", "find", "parse", "returned": where getMetadata stands
  rawTags,   \* the tag map as built from the file, before any descriptor ran
  exif,      \* the tag map the descriptors are handed
  idx,       \* the position in parsers of the descriptor find asks next
  seen,      \* per descriptor: the tag map its canParse was handed
  verdicts,  \* per descriptor: "unasked", "match", "nomatch" or "threw"
  chosen,    \* the descriptor whose parse was invoked, "none" if none was
  failed,    \* whether a step of this call threw
  outcome,   \* "pending", "resolved" or "rejected": how the call settled
  metadata,  \* the record getMetadata returned
  runs,      \* the earlier dispatches over this tag map: [chosen, metadata]
  editor,    \* the text encodeMetadata produced for the returned record
  reparsed,  \* parsePromptMetadata of the editor text, once computed
  saved,     \* the outcome of saveImageWithMetadata for the returned record
  tok,       \* parseDetailsLine at work: the line, the position, the loop state
  given,     \* the text a caller has handed to parsePromptMetadata
  ui         \* the state of the ImageProcessor and ImageMetadata components

vars == <<pc, rawTags, exif, idx, seen, verdicts, chosen, failed, outcome,
          metadata, runs, editor, reparsed, saved, tok, given, ui>>

Unasked == [n \in {"automatic", "comfy"} |-> "unasked"]
Unseen == [n \in {"automatic", "comfy"} |-> NoTags]
NotParsed == [threw |-> FALSE, value |-> Undefined]
TokIdle == [items |-> <<>>, line |-> "", i |-> 0, st |-> PDInit, result |-> Undefined]
NotSaved == [outcome |-> "none", type |-> "", format |-> "", text |-> Undefined]

Init ==
  /\ pc = "idle"
  /\ rawTags = NoTags
  /\ exif = NoTags
  /\ idx = 0
  /\ seen = Unseen
  /\ verdicts = Unasked
  /\ chosen = "none"
  /\ failed = FALSE
  /\ outcome = "pending"
  /\ metadata = EmptyRecord
  /\ runs = <<>>
  /\ editor = Undefined
  /\ reparsed = NotParsed
  /\ saved = NotSaved
  /\ tok = TokIdle
  /\ ui = UiIdle
  /\ given = Undefined

\* getMetadata(file), lines 19-34: the tags are loaded and the tag map is
\* built; a file ExifReader cannot read makes load reject
Load ==
  /\ pc = "idle"
  /\ \E tags \in Files, readable \in BOOLEAN :
       IF readable
       THEN /\ pc' = "find"
            /\ rawTags' = BuildExif(tags)
            /\ exif' = BuildExif(tags)
            /\ idx' = 1
            /\ UNCHANGED <<failed, outcome, metadata>>
       ELSE /\ pc' = "returned"
            /\ failed' = TRUE
            /\ outcome' = IF OuterCatch(Threw).threw THEN "rejected" ELSE "resolved"
            /\ metadata' = OuterCatch(Threw).value
            /\ UNCHANGED <<rawTags, exif, idx>>
  /\ UNCHANGED <<seen, verdicts, chosen, runs, editor, reparsed, saved, tok, given, ui>>

\* line 38: find asks the descriptor at position idx
FindStep ==
  /\ pc = "find"
  /\ \E name \in {parsers[idx]}, verdict \in {CanParse(parsers[idx], exif)} :
        /\ seen' = [seen EXCEPT ![name] = exif]
        /\ exif' = verdict.exif
        /\ verdicts' = [verdicts EXCEPT ![name] =
                          IF verdict.threw THEN "threw"
                          ELSE IF verdict.value THEN "match" ELSE "nomatch"]
        /\ idx' = NextIndex(idx, verdict)
        /\ IF verdict.threw
           THEN /\ pc' = "returned"
                /\ failed' = TRUE
                /\ outcome' = IF Settle(Threw).threw THEN "rejected" ELSE "resolved"
                /\ metadata' = Settle(Threw).value
                /\ UNCHANGED chosen
           ELSE IF verdict.value
           THEN /\ pc' = "parse"
                /\ chosen' = SelectedParse(name)
                /\ UNCHANGED <<failed, outcome, metadata>>
           ELSE IF NextIndex(idx, verdict) # 0
           THEN UNCHANGED <<pc, chosen, failed, outcome, metadata>>
           ELSE IF SelectedParse("none") # "none"
           THEN /\ pc' = "parse"
                /\ chosen' = SelectedParse("none")
                /\ UNCHANGED <<failed, outcome, metadata>>
           ELSE /\ pc' = "returned"
                /\ outcome' = "resolved"
                /\ metadata' = EmptyRecord
                /\ UNCHANGED <<chosen, failed>>
  /\ UNCHANGED <<rawTags, runs, editor, reparsed, saved, tok, given, ui>>

\* lines 39-44: the parse of the descriptor found, and the return
ParseStep ==
  /\ pc = "parse"
  /\ \E r \in {Parse(chosen, exif)} :
        /\ failed' = r.threw
        /\ outcome' = IF Settle(r).threw THEN "rejected" ELSE "resolved"
        /\ metadata' = Settle(r).value
  /\ pc' = "returned"
  /\ UNCHANGED <<rawTags, exif, idx, seen, verdicts, chosen, runs, editor, reparsed,
                 saved, tok, given, ui>>

\* lines 36-44 once more over the same tag map object
Redispatch ==
  /\ pc = "returned"
  /\ rawTags # NoTags
  /\ editor = Undefined
  /\ Len(runs) + 1 < MaxRuns
  /\ runs' = Append(runs, [chosen |-> chosen, metadata |-> metadata, failed |-> failed])
  /\ pc' = "find"
  /\ idx' = 1
  /\ seen' = Unseen
  /\ verdicts' = Unasked
  /\ chosen' = "none"
  /\ failed' = FALSE
  /\ outcome' = "pending"
  /\ metadata' = EmptyRecord
  /\ UNCHANGED <<rawTags, exif, editor, reparsed, saved, tok, given, ui>>

\* the Edit tab: encodeMetadata(meta) for a record with a prompt
Encode ==
  /\ pc = "returned"
  /\ editor = Undefined
  /\ Truthy(ObjGet(metadata, "prompt"))
  /\ editor' = Str(encodeMetadata(metadata))
  /\ UNCHANGED <<pc, rawTags, exif, idx, seen, verdicts, chosen, failed, outcome,
                 metadata, runs, reparsed, saved, tok, given, ui>>

\* parsePromptMetadata over the text of the editor
ParsePrompt ==
  /\ editor # Undefined
  /\ reparsed = NotParsed
  /\ reparsed' = parsePromptMetadata(editor.v)
  /\ UNCHANGED <<pc, rawTags, exif, idx, seen, verdicts, chosen, failed, outcome,
                 metadata, runs, editor, saved, tok, given, ui>>

\* handleSaveCroppedImage: the download of the cropped canvas of a file of
\* the given type; toBlob may hand back null and the chunk libraries may throw
SaveCropped ==
  /\ pc = "returned"
  /\ outcome = "resolved"
  /\ saved = NotSaved
  /\ \E type \in FileTypes, blobOk \in BOOLEAN, chunksOk \in BOOLEAN :
       saved' = [saveImageWithMetadata(metadata, FormatOf(type), blobOk, chunksOk)
                   EXCEPT !.type = type]
  /\ UNCHANGED <<pc, rawTags, exif, idx, seen, verdicts, chosen, failed, outcome,
                 metadata, runs, editor, reparsed, tok, given, ui>>

Next == Load \/ FindStep \/ ParseStep \/ Redispatch \/ Encode \/ ParsePrompt

Spec == Init /\ [][Next]_vars

\* the crop-and-download flow: a file is loaded and parsed, then saved
SaveNext == Load \/ FindStep \/ ParseStep \/ SaveCropped

SaveSpec == Init /\ [][SaveNext]_vars

\* parsePromptMetadata called by a caller that holds a decoded text
ParseText ==
  /\ pc = "idle"
  /\ editor = Undefined
  /\ reparsed = NotParsed
  /\ \E text \in GeneratorTexts \cup TemplateTexts :
       /\ given' = Str(text)
       /\ reparsed' = parsePromptMetadata(text)
  /\ UNCHANGED <<pc, rawTags, exif, idx, seen, verdicts, chosen, failed, outcome,
                 metadata, runs, editor, saved, tok, ui>>

PromptNext == ParseText

PromptSpec == Init /\ [][PromptNext]_vars

(***************************************************************************)
(* The ImageProcessor and ImageMetadata components                         *)
(***************************************************************************)
\* Object.values(parsers).find((x) => x.canParse(exif)) and the parse of the
\* descriptor found, from the i-th descriptor on
RECURSIVE FindAndParse(_, _)
DispatchOn(i, verdict) ==
  IF verdict.threw THEN Threw
  ELSE IF verdict.value THEN Parse(parsers[i], verdict.exif)
  ELSE FindAndParse(verdict.exif, i + 1)

FindAndParse(tagMap, i) ==
  IF i > Len(parsers) THEN Returned(EmptyRecord)
  ELSE DispatchOn(i, CanParse(parsers[i], tagMap))

\* getMetadata(file) for a file ExifReader reads the tags from
getMetadata(tags) == Settle(FindAndParse(BuildExif(tags), 1)).value

\* JSON.stringify(x, null, 2)
RECURSIVE JSONStringifyIndented(_, _), IndentedMembers(_, _, _), IndentedElements(_, _, _)
JSONStringifyIndented(x, indent) ==
  IF x.t = "obj" /\ IndentedMembers(x.v, 1, indent \o "  ") # <<>>
  THEN "{\n" \o Join(IndentedMembers(x.v, 1, indent \o "  "), ",\n") \o "\n" \o indent \o "}"
  ELSE IF x.t = "arr" /\ x.v # <<>>
  THEN "[\n" \o Join(IndentedElements(x.v, 1, indent \o "  "), ",\n") \o "\n" \o indent \o "]"
  ELSE JSONStringify(x)

IndentedMembers(entries, i, indent) ==
  IF i > Len(entries) THEN <<>>
  ELSE IF entries[i][2].t = "undef" THEN IndentedMembers(entries, i + 1, indent)
  ELSE <<indent \o Quoted(entries[i][1]) \o ": "
           \o JSONStringifyIndented(entries[i][2], indent)>>
         \o IndentedMembers(entries, i + 1, indent)

IndentedElements(items, i, indent) ==
  IF i > Len(items) THEN <<>>
  ELSE <<indent \o JSONStringifyIndented(items[i], indent)>>
         \o IndentedElements(items, i + 1, indent)

\* image-metadata.tsx 47-49: the initial value of editedMetadata
InitialEdit(meta) ==
  IF Truthy(ObjGet(meta, "prompt")) THEN encodeMetadata(meta)
  ELSE JSONStringifyIndented(meta, "")

\* image-processor.tsx 200-206: ImageMetadata is rendered once metadata is
\* set; its state is initialised when it mounts and kept afterwards
Rendered(u) ==
  IF u.metadata # Null /\ ~u.mounted
  THEN [u EXCEPT !.mounted = TRUE, !.editedMetadata = Str(InitialEdit(u.metadata))]
  ELSE u

\* image-metadata.tsx 115-124 with organizeMeta: the tabs are shown when the
\* record has comfy data or a field that is displayed
TabsShown(meta) ==
  \/ Truthy(ObjGet(meta, "comfy"))
  \/ \E i \in 1..Len(meta.v) :
       /\ meta.v[i][1] \notin {"comfy", "resources", "Model"}
       /\ meta.v[i][2].t \notin {"obj", "undef", "null"}

\* handleFileSelect / handleDrop up to the await of preprocessImage inside
\* processImage
Upload ==
  /\ ui.uploads < MaxUploads
  /\ \E file \in UiFiles :
       ui' = IF ~StartsWith(file.type, "image/")
             THEN [ui EXCEPT !.error = TRUE, !.uploads = ui.uploads + 1]
             ELSE [ui EXCEPT !.loading = TRUE, !.error = FALSE, !.croppedCanvas = "",
                             !.inflight = Append(ui.inflight, file.name),
                             !.lastStarted = file.name,
                             !.uploads = ui.uploads + 1]
  /\ UNCHANGED <<pc, rawTags, exif, idx, seen, verdicts, chosen, failed, outcome,
                 metadata, runs, editor, reparsed, saved, tok, given>>

\* processImage 29-38 for the k-th call in flight: preprocessImage has
\* settled, with a result or with the error of getImageDimensions
Settled(u, k, ok) ==
  IF ok
  THEN [u EXCEPT !.image = u.inflight[k],
                 !.metadata = getMetadata(FileNamed(u.inflight[k]).tags),
                 !.metaFile = u.inflight[k],
                 !.originalFile = u.inflight[k],
                 !.loading = FALSE,
                 !.inflight = RemoveAt(u.inflight, k)]
  ELSE [u EXCEPT !.error = TRUE, !.loading = FALSE,
                 !.inflight = RemoveAt(u.inflight, k)]

Resolve ==
  /\ \E k \in 1..Len(ui.inflight), ok \in BOOLEAN : ui' = Rendered(Settled(ui, k, ok))
  /\ UNCHANGED <<pc, rawTags, exif, idx, seen, verdicts, chosen, failed, outcome,
                 metadata, runs, editor, reparsed, saved, tok, given>>

\* handleCrop: the Crop button is shown with the image, outside the cropper
CropClick ==
  /\ ui.image # "" /\ ~ui.showCropper
  /\ ui' = [ui EXCEPT !.showCropper = TRUE, !.cropperImage = ui.image]
  /\ UNCHANGED <<pc, rawTags, exif, idx, seen, verdicts, chosen, failed, outcome,
                 metadata, runs, editor, reparsed, saved, tok, given>>

\* handleSaveCroppedCanvas(canvas): the canvas is a crop of the image the
\* cropper was opened on or of the image it is handed now
ApplyCrop ==
  /\ ui.showCropper
  /\ \E source \in {ui.cropperImage, ui.image} :
       ui' = [ui EXCEPT !.croppedCanvas = source, !.showCropper = FALSE]
  /\ UNCHANGED <<pc, rawTags, exif, idx, seen, verdicts, chosen, failed, outcome,
                 metadata, runs, editor, reparsed, saved, tok, given>>

\* handleSaveCroppedImage: the Download button of the cropped canvas
Download ==
  /\ ui.image # "" /\ ~ui.showCropper
  /\ ui.croppedCanvas # "" /\ ui.metadata # Null
  /\ \E blobOk \in BOOLEAN, chunksOk \in BOOLEAN :
       \E blob \in {saveImageWithMetadata(ui.metadata,
                       FormatOf(FileNamed(ui.originalFile).type), blobOk, chunksOk)} :
         ui' = [ui EXCEPT !.download =
                  [outcome |-> blob.outcome, crop |-> ui.croppedCanvas,
                   metaFile |-> ui.metaFile, text |-> blob.text]]
  /\ UNCHANGED <<pc, rawTags, exif, idx, seen, verdicts, chosen, failed, outcome,
                 metadata, runs, editor, reparsed, saved, tok, given>>

\* the textarea of the Edit tab: setEditedMetadata(e.target.value)
TypeText ==
  /\ ui.mounted /\ ui.image # "" /\ TabsShown(ui.metadata)
  /\ \E text \in TypedTexts :
       ui' = [ui EXCEPT !.editedMetadata = Str(text), !.typedFor = ui.image]
  /\ UNCHANGED <<pc, rawTags, exif, idx, seen, verdicts, chosen, failed, outcome,
                 metadata, runs, editor, reparsed, saved, tok, given>>

\* image-metadata.tsx 68-75: the record handed to saveImageWithMetadata
ParsedMetadata(meta, editedMetadata) ==
  IF Truthy(ObjGet(meta, "prompt")) THEN Returned(ObjSet(meta, "prompt", editedMetadata))
  ELSE JSONParse(editedMetadata.v)

\* handleSaveMetadata from line 76 on, for the record of lines 68-75: an
\* exception of lines 68-75 or a rejected save ends in the alert of line 109
SaveParsed(u, parsed, blob) ==
  [outcome |-> IF parsed.threw \/ blob.outcome = "rejected" THEN "alert" ELSE "resolved",
   edited |-> u.editedMetadata,
   prompted |-> Truthy(ObjGet(u.metadata, "prompt")),
   text |-> IF parsed.threw THEN Undefined ELSE blob.text]

\* the blob of line 94 for the record of lines 68-75
EditedBlob(u, parsed, blobOk, chunksOk) ==
  IF parsed.threw \/ parsed.value.t # "obj" THEN NotSaved
  ELSE saveImageWithMetadata(parsed.value, FormatOf(FileNamed(u.originalFile).type),
                             blobOk, chunksOk)

\* handleSaveMetadata: the button 'Save with Edited Metadata'
SaveEdited ==
  /\ ui.mounted /\ ui.image # "" /\ TabsShown(ui.metadata)
  /\ \E blobOk \in BOOLEAN, chunksOk \in BOOLEAN :
       \E parsed \in {ParsedMetadata(ui.metadata, ui.editedMetadata)} :
         ui' = [ui EXCEPT !.savedEdit =
                  SaveParsed(ui, parsed, EditedBlob(ui, parsed, blobOk, chunksOk))]
  /\ UNCHANGED <<pc, rawTags, exif, idx, seen, verdicts, chosen, failed, outcome,
                 metadata, runs, editor, reparsed, saved, tok, given>>

UiNext == Upload \/ Resolve \/ CropClick \/ ApplyCrop \/ Download \/ TypeText \/ SaveEdited

UiSpec == Init /\ [][UiNext]_vars

\* parseDetailsLine(line) is entered with a details line
TokStart ==
  /\ tok = TokIdle
  /\ \E items \in SeqsUpTo(TokItems, MaxItems) :
       tok' = [items |-> items, line |-> ItemsLine(items), i |-> 1, st |-> PDInit,
               result |-> Undefined]
  /\ UNCHANGED <<pc, rawTags, exif, idx, seen, verdicts, chosen, failed, outcome,
                 metadata, runs, editor, reparsed, saved, given, ui>>

\* one turn of the for loop, lines 141-163
TokStep ==
  /\ tok.i >= 1 /\ tok.i <= Len(tok.line)
  /\ tok' = [tok EXCEPT !.i = tok.i + 1, !.st = PDStep(tok.line, tok.i, tok.st)]
  /\ UNCHANGED <<pc, rawTags, exif, idx, seen, verdicts, chosen, failed, outcome,
                 metadata, runs, editor, reparsed, saved, given, ui>>

\* lines 165-167: the last store and the return
TokReturn ==
  /\ tok.i = Len(tok.line) + 1
  /\ tok.result = Undefined
  /\ tok' = [tok EXCEPT !.result = PDFinish(tok.st)]
  /\ UNCHANGED <<pc, rawTags, exif, idx, seen, verdicts, chosen, failed, outcome,
                 metadata, runs, editor, reparsed, saved, given, ui>>

TokNext == TokStart \/ TokStep \/ TokReturn

TokSpec == Init /\ [][TokNext]_vars

(***************************************************************************)
(* Properties                                                              *)
(***************************************************************************)
Field(k) == ObjGet(metadata, k)

HasResource(meta, r) ==
  /\ ObjGet(meta, "resources").t = "arr"
  /\ \E i \in 1..Len(ObjGet(meta, "resources").v) : ObjGet(meta, "resources").v[i] = r

\* the call has returned the record of the generator-text parse
ParsedAutomatic ==
  pc = "returned" /\ chosen = "automatic" /\ ~failed /\ exif.generationDetails.t = "str"

\* C1: getMetadata never rejects: it resolves with a record, and with the
\* empty record whenever load, a canParse or the parse threw.
TheoremC1 ==
  /\ outcome # "rejected"
  /\ pc = "returned" =>
       /\ outcome = "resolved"
       /\ metadata.t = "obj"
       /\ failed => metadata = EmptyRecord

\* a parse that threw (malformed JSON block) and a call that still returned
WitnessC1 ==
  /\ pc = "returned" /\ failed /\ chosen = "automatic"
  /\ outcome = "resolved" /\ metadata = EmptyRecord

\* C2: the example text yields prompt, negativePrompt and sampler as given,
\* steps, cfgScale and seed as the numbers 20, 7 and 12345, and the model
\* resource.
ClaimC2 ==
  (ParsedAutomatic /\ exif.generationDetails = Str(ExampleText)) =>
    /\ Field("prompt") = Str("A beautiful landscape")
    /\ Field("negativePrompt") = Str("ugly, blurry")
    /\ Field("steps") = Num(20)
    /\ Field("cfgScale") = Num(7)
    /\ Field("seed") = Num(12345)
    /\ Field("sampler") = Str("Euler a")
    /\ HasResource(metadata,
         Obj(<<<<"type", Str("model")>>, <<"name", Str("modelName")>>,
               <<"hash", Str("1234abcd")>>>>))

\* the names of the resources of a stage
ResourceNames(st) == {ObjGet(st.resources[j], "name") : j \in 1..Len(st.resources)}

\* the merge of the Lora hashes table of stage st0 gave stage st1
MergeHolds(st0, st1) ==
  LET entries == ObjectEntries(ObjGet(st0.metadata, "Lora hashes"))
      fresh == {i \in 1..Len(entries) : Str(entries[i][1]) \notin ResourceNames(st0)}
      Named(st, i) ==
        {j \in 1..Len(st.resources) : ObjGet(st.resources[j], "name") = Str(entries[i][1])}
  IN /\ \A i \in 1..Len(entries) :
          ObjGet(ObjGet(st1.metadata, "hashes"), "lora:" \o entries[i][1]) = entries[i][2]
     /\ Len(st1.resources) = Len(st0.resources) + Cardinality(fresh)
     /\ \A i \in (1..Len(entries)) \ fresh :
          /\ Named(st1, i) = Named(st0, i)
          /\ ObjGet(st1.resources[Min(Named(st1, i))], "hash") = entries[i][2]
     /\ \A i \in fresh :
          /\ Cardinality(Named(st1, i)) = 1
          /\ \A j \in Named(st1, i) :
               st1.resources[j] =
                 Obj(<<<<"type", Str("lora")>>, <<"name", Str(entries[i][1])>>,
                       <<"hash", entries[i][2]>>>>)

\* C3: for every entry N -> H of the Lora hashes table the hash map gains
\* lora:N -> H; a resource named N from an inline tag gains the hash and no
\* resource is added, otherwise exactly one lora resource {N, H} is added;
\* the resource count is the number of inline tags plus the number of table
\* names that match no inline tag.  The returned record carries the merged
\* resources and hashes.
TheoremC3 ==
  ParsedAutomatic =>
    \A st0 \in {PromptStage(exif.generationDetails.v)} :
      \A st1 \in {ExtractLoraHashes(st0)},
         entries \in {ObjectEntries(ObjGet(st0.metadata, "Lora hashes"))} :
        Truthy(ObjGet(st0.metadata, "Lora hashes")) =>
          /\ MergeHolds(st0, st1)
          /\ SubSeq(Field("resources").v, 1, Len(st1.resources)) = st1.resources
          /\ \A i \in 1..Len(entries) :
               ObjGet(Field("hashes"), "lora:" \o entries[i][1]) = entries[i][2]
          /\ ~ObjHas(metadata, "Lora hashes")

\* one inline tag enriched, one table entry appended, no duplicate
WitnessC3 ==
  /\ ParsedAutomatic
  /\ Len(Field("resources").v) = 2
  /\ Field("resources").v[1] =
       Obj(<<<<"type", Str("lora")>>, <<"name", Str("myStyle")>>,
             <<"weight", Dec(8, 1)>>, <<"hash", Str("abc123")>>>>)
  /\ Field("resources").v[2] =
       Obj(<<<<"type", Str("lora")>>, <<"name", Str("c")>>, <<"hash", Str("0f0f")>>>>)
  /\ ObjGet(Field("hashes"), "lora:myStyle") = Str("abc123")

\* the tag map satisfies both detection predicates
MatchesBoth(tags) ==
  /\ ~AutomaticCanParse(tags).threw /\ AutomaticCanParse(tags).value
  /\ ~ComfyCanParse(tags).threw /\ ComfyCanParse(tags).value

\* C4: when the tag map satisfies both detection predicates, the parse that
\* runs is the one of the generator-text descriptor, in this dispatch and in
\* every earlier dispatch over the same tag map.
TheoremC4 ==
  (pc \in {"parse", "returned"} /\ rawTags # NoTags /\ MatchesBoth(rawTags)) =>
    /\ chosen = "automatic"
    /\ \A i \in 1..Len(runs) : runs[i].chosen = "automatic"

\* a second dispatch over a tag map with both markers
WitnessC4 ==
  /\ pc = "returned" /\ rawTags # NoTags /\ MatchesBoth(rawTags)
  /\ Len(runs) >= 1 /\ chosen = "automatic" /\ metadata # EmptyRecord

\* C5: when the generator-text canParse returned false, the tag map the later
\* descriptor is handed equals the tag map that canParse was handed.
ClaimC5 ==
  (verdicts["automatic"] = "nomatch" /\ verdicts["comfy"] # "unasked") =>
    seen["comfy"] = seen["automatic"]

\* C6: when a canParse threw, the descriptors after it are still asked, and
\* one that matches is selected.
ClaimC6 ==
  (pc = "returned" /\ verdicts["automatic"] = "threw") =>
    /\ verdicts["comfy"] # "unasked"
    /\ (~ComfyCanParse(exif).threw /\ ComfyCanParse(exif).value) => chosen = "comfy"

\* C7: when no descriptor's canParse returned true, the call returns the
\* empty record and no parse has been invoked.
TheoremC7 ==
  (pc \in {"parse", "returned"} /\ rawTags # NoTags
     /\ \A n \in DOMAIN verdicts : verdicts[n] # "match") =>
    /\ pc = "returned"
    /\ chosen = "none"
    /\ metadata = EmptyRecord

\* a text without the step marker and no graph field: both asked, none matched
WitnessC7 ==
  /\ pc = "returned"
  /\ rawTags.parameters = Str("hello world")
  /\ verdicts["automatic"] = "nomatch" /\ verdicts["comfy"] = "nomatch"
  /\ metadata = EmptyRecord

\* C8: a later dispatch over the same tag map object chooses the descriptor
\* and returns the record of every earlier one.
TheoremC8 ==
  pc = "returned" =>
    \A i \in 1..Len(runs) :
      /\ runs[i].chosen = chosen
      /\ runs[i].metadata = metadata
      /\ runs[i].failed = failed

\* a second dispatch over a tag map the first one has written to
WitnessC8 ==
  /\ pc = "returned" /\ Len(runs) >= 1
  /\ exif # rawTags
  /\ metadata # EmptyRecord

\* the record re carries every string-valued field of meta with its value
SimpleFieldsAgree(meta, re) ==
  /\ re.t = "obj"
  /\ \A i \in 1..Len(meta.v) :
       meta.v[i][2].t = "str" => ObjGet(re, meta.v[i][1]) = meta.v[i][2]

\* C9: for a generator text with a details line, the parse of the encoded
\* record agrees with the record on prompt, negativePrompt, steps and every
\* other string-valued field.
ClaimC9 ==
  (ParsedAutomatic /\ reparsed # NotParsed) =>
    /\ ~reparsed.threw
    /\ SimpleFieldsAgree(metadata, reparsed.value)

\* the fields of a record the encoded text is to leave out
LossyKeys == {"resources", "hashes", "civitaiResources", "extra"}

\* C10: the encoded text carries no pair rendered from the resources, the
\* hash map, the Civitai resource list or the extra-metadata object of the
\* record.
ClaimC10 ==
  editor # Undefined =>
    \A k \in LossyKeys :
      ObjHas(metadata, k) =>
        ~Includes(editor.v, SDEncodeMapGet(k) \o ": " \o JSString(ObjGet(metadata, k)))

\* the fields the record schema declares as numbers
NumericFields == {"steps", "cfgScale", "seed", "clipSkip"}

\* C11: in every non-empty record getMetadata returns, the fields steps,
\* cfgScale, seed and clipSkip, when present, are numbers.
ClaimC11 ==
  (pc = "returned" /\ metadata # EmptyRecord) =>
    \A k \in NumericFields : ObjHas(metadata, k) => Field(k).t \in {"num"}

\* x is a Resource: type and name are strings, weight a number and hash a
\* string when present
IsResource(x) ==
  /\ x.t = "obj"
  /\ ObjGet(x, "type").t = "str"
  /\ ObjGet(x, "name").t = "str"
  /\ ObjHas(x, "weight") => ObjGet(x, "weight").t \in {"num", "undef"}
  /\ ObjHas(x, "hash") => ObjGet(x, "hash").t \in {"str", "undef"}

\* o maps strings to strings
IsStringMap(o) ==
  /\ o.t = "obj"
  /\ \A i \in 1..Len(o.v) : o.v[i][2].t = "str"

\* C12: a record getMetadata returns is empty, or its hashes field maps
\* strings to strings and its resources field is a sequence of Resource.
ClaimC12 ==
  (pc = "returned" /\ metadata # EmptyRecord) =>
    /\ ObjHas(metadata, "hashes") => IsStringMap(Field("hashes"))
    /\ ObjHas(metadata, "resources") =>
         /\ Field("resources").t = "arr"
         /\ \A i \in 1..Len(Field("resources").v) : IsResource(Field("resources").v[i])

\* C13: when the workflow-graph descriptor was selected and its parse threw
\* on the blob, getMetadata resolves with the empty record.
TheoremC13 ==
  (pc = "returned" /\ chosen = "comfy" /\ ComfyParse(exif).threw) =>
    /\ failed
    /\ outcome = "resolved"
    /\ metadata = EmptyRecord

\* the graph blob is cut short, the descriptor matched and its parse threw
WitnessC13 ==
  /\ pc = "returned" /\ chosen = "comfy"
  /\ exif.prompt = Str(BadGraphJson)
  /\ failed /\ outcome = "resolved" /\ metadata = EmptyRecord

\* C14: for a file of every supported type and every non-empty record, the
\* blob saveImageWithMetadata resolves with carries the metadata text.
ClaimC14 ==
  (saved.outcome = "resolved" /\ metadata # EmptyRecord) =>
    saved.text = Str(MetadataString(metadata))

\* the tokenizer takes the character at tok.i in this step
TokStepped == tok.i >= 1 /\ tok.i <= Len(tok.line) /\ tok'.i = tok.i + 1

\* the keys of the pairs a line was put together from, as parse names them
ItemKeys(items) == {getSDKey(items[j].key) : j \in 1..Len(items)}

\* the keys of a record
KeySet(o) == {o.v[j][1] : j \in 1..Len(o.v)}

\* an unquoted value that holds a timestamp
IsDateItem(it) ==
  ~it.quoted /\ Len(it.value) > 14 /\ isPartialDate(" " \o SubSeq(it.value, 1, 13))

\* the timestamp colon only raises the inside-date flag, a later colon is
\* appended to the value, and the comma ends the pair under the key read
\* before the timestamp
DateStep ==
  TokStepped =>
    /\ (Ch(tok.line, tok.i) = ":" /\ ~tok.st.insideQuotes /\ ~tok.st.insideDate
          /\ isPartialDate(tok.st.currentValue)) =>
         tok'.st = [tok.st EXCEPT !.insideDate = TRUE]
    /\ (Ch(tok.line, tok.i) = ":" /\ ~tok.st.insideQuotes /\ tok.st.insideDate) =>
         tok'.st = [tok.st EXCEPT !.currentValue = tok.st.currentValue \o ":"]
    /\ (Ch(tok.line, tok.i) = "," /\ ~tok.st.insideQuotes /\ tok.st.insideDate) =>
         /\ ~tok'.st.insideDate
         /\ tok'.st.currentKey = "" /\ tok'.st.currentValue = ""
         /\ tok.st.currentKey # "" =>
              ObjGet(tok'.st.result, tok.st.currentKey) = Str(Trim(tok.st.currentValue))

\* the returned mapping holds the key of every timestamp pair, its value
\* keeps the later colons, and no part of a timestamp has become a key
DateKept ==
  tok.result # Undefined =>
    /\ KeySet(tok.result) = ItemKeys(tok.items)
    /\ \A j \in 1..Len(tok.items) :
         IsDateItem(tok.items[j]) =>
           /\ ObjGet(tok.result, getSDKey(tok.items[j].key)).t = "str"
           /\ Includes(ObjGet(tok.result, getSDKey(tok.items[j].key)).v,
                       SubSeq(tok.items[j].value, 15, Len(tok.items[j].value)))

\* C15: a colon met outside quotes while the accumulated value is a
\* 14-character partial timestamp, and every later colon up to the next
\* unquoted comma, is no key/value separator; the pair keeps the key read
\* before the timestamp and the inside-date state ends at that comma.
TheoremC15 == [][DateStep]_vars /\ []DateKept

\* a timestamp pair followed by another pair, both under their keys
WitnessC15 ==
  /\ tok.result # Undefined
  /\ Len(tok.items) = 2
  /\ tok.items[1].key = "Created Date" /\ tok.items[2].key = "Sampler"
  /\ ObjHas(tok.result, "Created Date")
  /\ ObjGet(tok.result, "sampler") = Str("Euler a")
  /\ ~tok.st.insideDate

\* inside quotes a colon or a comma is only appended to the value
QuoteStep ==
  (TokStepped /\ tok.st.insideQuotes /\ Ch(tok.line, tok.i) \in {":", ","}) =>
      tok'.st = [tok.st EXCEPT
                   !.currentValue = tok.st.currentValue \o Ch(tok.line, tok.i)]

\* the keys a quoted text would give if it were parsed at the enclosing level
InnerKeys(items) ==
  UNION {KeySet(parseDetailsLine(Str(items[j].value))) :
           j \in {k \in 1..Len(items) : items[k].quoted}}

\* the returned mapping has one key per pair, none of them from inside a
\* quoted text, and every unquoted pair holds its own value
QuoteKept ==
  tok.result # Undefined =>
    /\ KeySet(tok.result) = ItemKeys(tok.items)
    /\ \A j \in 1..Len(tok.items) :
         /\ tok.items[j].quoted =>
              ObjGet(tok.result, getSDKey(tok.items[j].key)).t = "obj"
         /\ (~tok.items[j].quoted /\ ~IsDateItem(tok.items[j])) =>
              ObjGet(tok.result, getSDKey(tok.items[j].key)) = Str(tok.items[j].value)

\* C16: inside a double-quoted value a colon starts no key and a comma ends
\* no pair of the enclosing level; each quoted value contributes exactly one
\* key to the enclosing result, and the pairs after the closing quote are
\* parsed as if the quoted text held no separators.
TheoremC16 == [][QuoteStep]_vars /\ []QuoteKept

\* a quoted value with a colon and a comma in it, followed by a plain pair
WitnessC16 ==
  /\ tok.result # Undefined
  /\ Len(tok.items) = 2
  /\ tok.items[1].key = "Lora hashes" /\ tok.items[2].key = "Steps"
  /\ KeySet(tok.result) = {"Lora hashes", "steps"}
  /\ InnerKeys(tok.items) = {"myStyle", "other"}
  /\ ObjGet(tok.result, "steps") = Str("20")

\* the closing quote stores, under the key read before the quote, the parse
\* of the text gathered since the key
NestedStep ==
  (TokStepped /\ tok.st.insideQuotes /\ Ch(tok.line, tok.i) = "\"") =>
    /\ ~tok'.st.insideQuotes
    /\ ObjGet(tok'.st.result, tok.st.currentKey) =
         parseDetailsLine(Str(Trim(tok.st.currentValue)))
    /\ ObjGet(tok'.st.result, tok.st.currentKey).t = "obj"

\* every quoted pair of the line is returned as the mapping of its text
NestedKept ==
  tok.result # Undefined =>
    \A j \in 1..Len(tok.items) :
      tok.items[j].quoted =>
        /\ ObjGet(tok.result, getSDKey(tok.items[j].key)) =
             parseDetailsLine(Str(tok.items[j].value))
        /\ ObjGet(tok.result, getSDKey(tok.items[j].key)).t = "obj"

\* C17: for every pair whose value is double-quoted, the value stored under
\* the key is the result of the same details-line parser on the text between
\* the quotes, a nested mapping of its key: value pairs.
TheoremC17 == [][NestedStep]_vars /\ []NestedKept

\* a quoted hash table returned as a mapping of its two entries, and a
\* quoted block with a timestamp in it
WitnessC17 ==
  /\ tok.result # Undefined
  /\ Len(tok.items) = 2
  /\ tok.items[1].key = "Lora hashes" /\ tok.items[2].key = "Meta"
  /\ ObjGet(tok.result, "Lora hashes") =
       Obj(<<<<"myStyle", Str("abc123")>>, <<"other", Str("def456")>>>>)
  /\ KeySet(ObjGet(tok.result, "Meta")) = {"Created Date", "seed"}

\* whether record m has a hash map with an entry k, and that entry
HasHash(m, k) == ObjGet(m, "hashes").t = "obj" /\ ObjHas(ObjGet(m, "hashes"), k)

HashOf(m, k) == IF HasHash(m, k) THEN ObjGet(ObjGet(m, "hashes"), k) ELSE Undefined

\* the positions of the model-typed resources of a record
ModelResources(m) ==
  {i \in 1..Len(ObjGet(m, "resources").v) :
     ObjGet(ObjGet(m, "resources").v[i], "type") = Str("model")}

\* the record of the parse as it stands before the Model hash step
BeforeModelHash(text) == ExtractVAE(ExtractLoraHashes(PromptStage(text))).metadata

\* C18: with both Model and Model hash present, an existing 'model' entry
\* of the hash map is left unchanged and it is set to the Model hash value
\* only when it was absent, and exactly one model-typed resource with that
\* name and hash is appended; with either field missing, no model resource
\* and no 'model' entry comes from these fields.
ClaimC18 ==
  ParsedAutomatic =>
    \A m0 \in {BeforeModelHash(exif.generationDetails.v)} :
      IF ObjHas(m0, "Model") /\ ObjHas(m0, "Model hash")
      THEN /\ HashOf(metadata, "model") =
                IF HasHash(m0, "model") THEN HashOf(m0, "model")
                ELSE ObjGet(m0, "Model hash")
           /\ Cardinality(ModelResources(metadata)) = 1
           /\ \A i \in ModelResources(metadata) :
                Field("resources").v[i] =
                  Obj(<<<<"type", Str("model")>>, <<"name", ObjGet(m0, "Model")>>,
                        <<"hash", ObjGet(m0, "Model hash")>>>>)
      ELSE /\ ModelResources(metadata) = {}
           /\ HashOf(metadata, "model") = HashOf(m0, "model")

\* the stage of the parse as it stands before the AddNet block is read
BeforeAddNet(text) ==
  ExtractHypernet(ExtractModelHash(ExtractVAE(ExtractLoraHashes(PromptStage(text)))))

\* the number of slots i, i + 1, ... that have a model field, up to the
\* first slot that has none
RECURSIVE FilledSlots(_, _)
FilledSlots(m, i) ==
  IF ObjHas(m, "AddNet Model " \o NatToString(i)) THEN 1 + FilledSlots(m, i + 1) ELSE 0

\* the number of resources the AddNet block of record m is to give
SlotsToRead(m) ==
  IF ObjGet(m, "AddNet Enabled") = Str("True") THEN FilledSlots(m, 1) ELSE 0

\* the returned record carries the resources of stage st0 followed by one
\* resource for each of the slots 1..k, in slot order
SlotsAppended(st0, k) ==
  /\ ~failed
  /\ Field("resources").t = "arr"
  /\ Len(Field("resources").v) = Len(st0.resources) + k
  /\ SubSeq(Field("resources").v, 1, Len(st0.resources)) = st0.resources
  /\ \A i \in 1..k :
       ObjGet(Field("resources").v[Len(st0.resources) + i], "weight") =
         parseFloat(ObjGet(st0.metadata, "AddNet Weight " \o NatToString(i)))

\* C19: with the AddNet block enabled, parse appends one resource per slot
\* for the slots 1..k, k + 1 being the first slot without a model field, in
\* slot order; slots after the gap are ignored, the loop ends for every
\* input, and a block that is not enabled gives no resource.
ClaimC19 ==
  (pc = "returned" /\ chosen = "automatic" /\ exif.generationDetails.t = "str") =>
    \A st0 \in {BeforeAddNet(exif.generationDetails.v)} :
      ~st0.threw => SlotsAppended(st0, SlotsToRead(st0.metadata))

\* C20: every entry of the resources sequence returned by the generator-text
\* parse has a type that is a string and a name that is a string, whichever
\* step created it.
ClaimC20 ==
  ParsedAutomatic =>
    \A i \in 1..Len(Field("resources").v) :
      /\ ObjGet(Field("resources").v[i], "type").t = "str"
      /\ ObjGet(Field("resources").v[i], "name").t = "str"

\* the stage of the parse as it stands before the hypernetwork step
BeforeHypernet(text) == ExtractModelHash(ExtractVAE(ExtractLoraHashes(PromptStage(text))))

\* both hypernetwork fields are in the record
HasHypernetFields(m) == ObjHas(m, "Hypernet") /\ ObjHas(m, "Hypernet strength")

\* the returned record carries the resources of stage st0 followed by exactly
\* one resource of the given type made from the hypernetwork fields
HypernetAppended(st0, type) ==
  /\ Len(Field("resources").v) = Len(st0.resources) + 1 + SlotsToRead(st0.metadata)
  /\ SubSeq(Field("resources").v, 1, Len(st0.resources)) = st0.resources
  /\ Field("resources").v[Len(st0.resources) + 1] =
       Obj(<<<<"type", Str(type)>>, <<"name", ObjGet(st0.metadata, "Hypernet")>>,
             <<"weight", parseFloat(ObjGet(st0.metadata, "Hypernet strength"))>>>>)
  /\ ObjGet(Field("resources").v[Len(st0.resources) + 1], "weight").t = "num"

ClaimC22 ==
  reparsed # NotParsed => (~reparsed.threw /\ reparsed.value.t = "obj")

\* the stage of the parse as it stands before the fine details are copied
BeforeFineDetails(text) ==
  ExtractCivitaiMetadata(ExtractCivitaiResources(ExtractHashes(DetailsStage(text))))

\* the details-line keys that the rename table replaces
RenamedKeys == {automaticSDKeyMap[i][1] : i \in 1..Len(automaticSDKeyMap)}

\* the keys the later steps move into the hash map and delete
MovedKeys == {"Lora hashes", "VAE hash"}

\* the renamed keys are in the record under their canonical names only, and
\* a pair of the details line is in the record unless its key is in the
\* exclusion list, in which case the record holds under that key what the
\* JSON blocks had put there
RenamedAndExcluded(st, details) ==
  /\ \A k \in RenamedKeys : ~ObjHas(metadata, k)
  /\ \A k \in MovedKeys : ~ObjHas(metadata, k)
  /\ \A i \in 1..Len(details.v) :
       \A k \in {SDKeyMapGet(details.v[i][1])} :
         IF k \in excludedKeys
         THEN Field(k) = ObjGet(st.metadata, k)
         ELSE k \in MovedKeys \cup {"prompt", "negativePrompt", "resources"}
                \/ Field(k) = details.v[i][2]

\* the strings held in the hash map and in the resources of record m
HeldData(m) ==
  (IF ObjGet(m, "hashes").t = "obj"
   THEN {ObjGet(m, "hashes").v[i][2] : i \in 1..Len(ObjGet(m, "hashes").v)} ELSE {})
  \cup UNION {{ObjGet(ObjGet(m, "resources").v[i], "name"),
               ObjGet(ObjGet(m, "resources").v[i], "hash")} :
                i \in 1..Len(ObjGet(m, "resources").v)}

\* no loose top-level pair of record m repeats a string of HeldData(m)
NoLooseCopy(m) ==
  \A i \in 1..Len(m.v) :
    (m.v[i][1] \notin {"hashes", "resources"} /\ m.v[i][2].t = "str") =>
      m.v[i][2] \notin HeldData(m)

\* C23 as stated: the renamed keys appear only under their canonical names,
\* no key of the exclusion list taken from the details line appears as a
\* loose top-level pair, and data held in hashes or resources is never also
\* present as a loose key/value pair.
ClaimC23 ==
  ParsedAutomatic =>
    \A st \in {BeforeFineDetails(exif.generationDetails.v)} :
      /\ RenamedAndExcluded(st, parseDetailsLine(st.line))
      /\ NoLooseCopy(metadata)

\* C23, amended: the renamed keys appear only under their canonical names,
\* no key of the exclusion list taken from the details line appears as a
\* loose top-level pair, and the Lora hashes table and the VAE hash are
\* removed from the loose pairs once they are moved into the hash map.
TheoremC23 ==
  ParsedAutomatic =>
    \A st \in {BeforeFineDetails(exif.generationDetails.v)} :
      RenamedAndExcluded(st, parseDetailsLine(st.line))

\* a details line with an excluded key, a renamed key and a moved key
WitnessC23 ==
  /\ ParsedAutomatic
  /\ Includes(exif.generationDetails.v, "models: m")
  /\ Includes(exif.generationDetails.v, "Clip skip: 2")
  /\ Field("clipSkip") = Str("2") /\ Field("sampler") = Str("Euler a")
  /\ ~ObjHas(metadata, "models") /\ ~ObjHas(metadata, "VAE hash")
  /\ ObjGet(Field("hashes"), "vae") = Str("bb22")

\* the lines without the section of one template marker: the first line
\* starting with the marker and the lines after it, up to the next line with
\* a key pattern
SectionEnd(lines, first) ==
  IF \E j \in (first + 1)..Len(lines) : HasKeyPattern(lines[j])
  THEN Min({j \in (first + 1)..Len(lines) : HasKeyPattern(lines[j])})
  ELSE Len(lines) + 1

WithoutSection(lines, key) ==
  IF FindLineIndex(lines, key) = 0 THEN lines
  ELSE SubSeq(lines, 1, FindLineIndex(lines, key) - 1)
         \o SubSeq(lines, SectionEnd(lines, FindLineIndex(lines, key)), Len(lines))

\* the lines of a sequence that start with the details marker, in order
DetailsLines(lines) == SelectSeq(lines, LAMBDA line : StartsWith(line, "Steps: "))

\* the removal gives the lines without the two sections and keeps every
\* details line
TemplatesRemoved(lines, kept) ==
  /\ kept = WithoutSection(WithoutSection(lines, templateKeys[1]), templateKeys[2])
  /\ DetailsLines(kept) = DetailsLines(lines)
  /\ Len(kept) <= Len(lines)

\* C24: for each template marker, parse removes the first line starting with
\* the marker and every following line up to, but not including, the next
\* line with a 'key: ' pattern; the removal ends for every input and never
\* removes the details line.
TheoremC24 ==
  given # Undefined =>
    \A lines \in {SplitMetaLines(given.v)} :
      /\ TemplatesRemoved(lines, RemoveTemplates(lines, 1))
      /\ DetailsLines(lines) # <<>> =>
           (~reparsed.threw => ObjGet(reparsed.value, "steps").t = "str")

\* a template line, a line of its section and the details line after it
WitnessC24 ==
  /\ given = Str("Template: t1\nfree text\nSteps: 20, Seed: 3")
  /\ ~reparsed.threw
  /\ ObjGet(reparsed.value, "prompt") = Str("")
  /\ ObjGet(reparsed.value, "steps") = Str("20")
  /\ ObjGet(reparsed.value, "seed") = Str("3")

\* C27: for a details-line pair whose value is a timestamp, the value stored
\* under the key is the timestamp text character for character (trimmed),
\* with every one of its colons present.
ClaimC27 ==
  tok.result # Undefined =>
    \A j \in 1..Len(tok.items) :
      IsDateItem(tok.items[j]) =>
        ObjGet(tok.result, getSDKey(tok.items[j].key)) = Str(Trim(tok.items[j].value))

\* C28: whenever the generator-text detect predicate returns true for a tag
\* map, parse of that tag map finds a details line and returns a record with
\* a steps field; no text is accepted by detect and then parsed with the
\* 'Steps: ' marker left inside the prompt.
ClaimC28 ==
  (ParsedAutomatic /\ verdicts["automatic"] = "match") =>
    /\ FindDetailsLine(RemoveTemplates(SplitMetaLines(exif.generationDetails.v), 1))
         # Undefined
    /\ ObjHas(metadata, "steps")
    /\ ~Includes(Field("prompt").v, "Steps: ")

\* C25: under every interleaving of upload, crop, apply-crop and download
\* with a processImage in flight, the blob produced by Download combines a
\* cropped canvas with the metadata extracted from the same file the crop
\* was taken from.
ClaimC25 ==
  ui.download.outcome = "resolved" => ui.download.crop = ui.download.metaFile

\* C26: once every processImage has completed, the displayed image, the
\* metadata and originalFile all belong to the file of the processImage
\* started last, whatever the order in which the preprocessing promises
\* resolve, and the loading flag is false only when no processImage is in
\* flight.
ClaimC26 ==
  /\ (ui.inflight = <<>> /\ ui.lastStarted # "" /\ ~ui.error) =>
       /\ ui.image = ui.lastStarted
       /\ ui.metaFile = ui.lastStarted
       /\ ui.originalFile = ui.lastStarted
  /\ ~ui.loading => ui.inflight = <<>>

\* C29: for a generator-text record, the text that 'Save with Edited
\* Metadata' embeds in the image equals the text in the editor; saving
\* without any edit embeds exactly encodeMetadata(meta).
ClaimC29 ==
  (ui.savedEdit.outcome = "resolved" /\ ui.savedEdit.prompted
     /\ ui.savedEdit.text # Undefined) =>
    ui.savedEdit.text = ui.savedEdit.edited

\* C30: once processing has finished and before the user types anything for
\* the current image, the text in the Edit tab is the encoding of the
\* metadata of the image currently displayed.
ClaimC30 ==
  (ui.inflight = <<>> /\ ui.mounted /\ ui.image # "" /\ ui.typedFor # ui.image
     /\ Truthy(ObjGet(ui.metadata, "prompt"))) =>
    ui.editedMetadata = Str(InitialEdit(ui.metadata))

====
